---------------------------- MODULE Spec2Model ----------------------------
(***************************************************************************)
(* A model of the C backend of hadi_LZ_package:                            *)
(*   - lz_core.c       naive LZ76 / LZ78 / block-entropy kernels           *)
(*   - lz_exhaustive.c exhaustive LZ76 enumeration over {0,1}^L            *)
(*   - online_suffix.c Ukkonen-style online suffix tree                    *)
(*   - lz_suffix.c     LZ76 parser walking the suffix tree                 *)
(*                                                                         *)
(* Conventions.  A C buffer of bytes with an explicit length is a TLA+     *)
(* sequence of numbers; C index i is TLA+ index i+1.  A double is a        *)
(* fixed-point integer in millionths (1.0 is 1000000), so that             *)
(* count * log2(n) is count * Log2Micro(n).                                *)
(***************************************************************************)
EXTENDS Integers, Sequences, FiniteSets, TLC

VARIABLES
    \* ---- naive kernels (lz_core.c) ----
    kernel,        \* which kernel this run executes
    input_string,  \* the sequence (x_string for the conditional kernels)
    y_string,      \* second sequence of the conditional kernels
    dimension,     \* block dimension of block_entropy
    st76,          \* loop state of lz76_complexity
    st78,          \* loop state of lz78_complexity
    stbe,          \* loop state of block_entropy
    result,        \* [done, value, aborted] of the running kernel
    heap,          \* [malloc_called, malloc_failed] of the running kernel
    \* ---- exhaustive enumerator (lz_exhaustive.c) ----
    exh_call,               \* entry point and its arguments
    gen,                    \* lz76_exhaustive_generate: recursion stack, string_buffer
    phrase_counts_output,   \* output array of lz76_exhaustive_generate
    dist,                   \* lz76_exhaustive_distribution: locals and parallel region
    counts_by_complexity,   \* output array of lz76_exhaustive_distribution
    \* ---- suffix tree and LZ parser (online_suffix.c, lz_suffix.c) ----
    tree,          \* SuffixTreeCState (the base_tree of the LZ state)
    lz,            \* LZSuffixTreeCState without its base_tree
    fed,           \* the symbols passed to the tree / parser since creation or reset
    query,         \* the last find_c call: [pattern, found]
    process,       \* "running", or "exited" once exit(EXIT_FAILURE) was called
    completed,     \* the values add_char_lz_c returned since creation or reset
    fed_before_reset,  \* the symbols the parser was given before its last reset
    lz_batch,      \* the last process_lz_batch_c call: [called, strings, garbage, results]
    \* ---- batch kernels (lz_core.c) ----
    batch,         \* the batch kernel called, its arguments, and where the call is
    workers,       \* per worker: pc, loop index i, reversed buffer, max_len_processed_by_thread
    next_i,        \* the next loop index the dynamic schedule hands out
    results,       \* the results array
    written,       \* per slot of results: the workers that stored into it, in order
    failed,        \* the loop indices during which an allocation failed
    \* ---- the LZState buffers of the enumerator as memory (lz_exhaustive.c) ----
    mem_call,          \* the distribution call: L, thread count, split depth, pc
    mem_heap,          \* the malloc heap: per address [live, bytes]
    mem_prefix_states, \* the prefix_states array of LZState structs
    mem_workers,       \* per worker: the stack of recursion frames of its task
    mem_next_task,     \* the next task index the loop hands out
    \* ---- one add_char_c call, iteration by iteration (online_suffix.c) ----
    loop               \* pc, the symbol of the call, and the loop's locals

naiveVars == <<kernel, input_string, y_string, dimension, st76, st78, stbe, result, heap>>
exhVars   == <<exh_call, gen, phrase_counts_output, dist, counts_by_complexity>>
lzHist    == <<completed, fed_before_reset, lz_batch>>
treeVars  == <<tree, lz, fed, query, process, lzHist>>
batchVars == <<batch, workers, next_i, results, written, failed>>
memVars   == <<mem_call, mem_heap, mem_prefix_states, mem_workers, mem_next_task>>
loopVars  == <<loop>>
vars      == <<naiveVars, exhVars, treeVars, batchVars, memVars, loopVars>>

(***************************************************************************)
(* Bounds of the model.                                                    *)
(***************************************************************************)
NaiveMaxLen  == 4   \* longest enumerated input of a single-sequence kernel
NaiveMaxByte == 2   \* enumerated byte values are 0..NaiveMaxByte (0 = NUL)
CondMaxLen   == 2   \* longest enumerated X and Y of a conditional kernel
ExhMaxL      == 4   \* largest string length L of the exhaustive enumerator
ExhMaxC      == 4   \* largest max_complexity_to_track
ExhMaxThreads == 3  \* largest thread count (requested, or given by omp_get_max_threads)
TreeMaxLen   == 10  \* longest text fed to the plain suffix tree
TreeMaxByte  == 2   \* the plain tree is fed 0..TreeMaxByte, the LZ parser 1..TreeMaxByte
FindMaxTextLen == 5 \* find_c is called on a tree of at most this many symbols
LzMaxLen     == 6   \* longest sequence fed to the LZ parser over the tree
PatMaxLen    == 3   \* longest pattern passed to find_c
LzBatchMaxItems == 2   \* most strings in a process_lz_batch_c call
LzBatchMaxLen   == 2   \* longest string in a process_lz_batch_c call
LzMaxResetLen   == 3   \* reset_lz_suffix_tree_c is given a state fed at most this many symbols
LzBatchMaxFed   == 1   \* process_lz_batch_c is given a state fed at most this many symbols
BatchMaxItems   == 2  \* largest n_strings of a batch kernel
BatchMaxThreads == 2  \* largest n_threads of a batch kernel
BatchMaxLen     == 3  \* longest sequence of a batch
BatchMaxYLen    == 1  \* longest y sequence of a conditional batch
BatchMaxByte    == 1  \* bytes of a batch sequence are 0..BatchMaxByte
BatchMaxDim     == 2  \* largest block dimension of a batch
MemMaxL         == 3  \* largest L of a distribution call followed buffer by buffer
MemMaxThreads   == 2  \* largest thread count of such a call

(***************************************************************************)
(* Generic helpers.                                                        *)
(***************************************************************************)
SeqsUpTo(S, n) == UNION { [1..k -> S] : k \in 0..n }

Prefix(s, k) == SubSeq(s, 1, k)

\* memcmp(a + i, w, |w|) == 0 for C offset i
MemEq(a, i, w) == SubSeq(a, i + 1, i + Len(w)) = w

\* strlen of a buffer that is followed by a NUL terminator
StrLen(buf) ==
    IF \E i \in 1..Len(buf) : buf[i] = 0
    THEN (CHOOSE i \in 1..Len(buf) : buf[i] = 0 /\ \A j \in 1..(i-1) : buf[j] # 0) - 1
    ELSE Len(buf)

\* what strcpy copies out of a NUL-terminated buffer (terminator excluded)
StrCpy(buf) == Prefix(buf, StrLen(buf))

\* log2(n) in millionths, n = 1..20 (libm log2, rounded to nearest)
Log2Micro(n) ==
    << 0, 1000000, 1584963, 2000000, 2321928, 2584963, 2807355, 3000000,
       3169925, 3321928, 3459432, 3584963, 3700440, 3807355, 3906891,
       4000000, 4087463, 4169925, 4247928, 4321928 >>[n]


(***************************************************************************)
(* lz_core.c: lz76_complexity                                              *)
(***************************************************************************)
\* variant: current_word is compared at the start of the buffer only
ScanAtStartOnly(temp_dict_buffer, current_word, i) ==
    /\ Len(current_word) <= Len(temp_dict_buffer)
    /\ MemEq(temp_dict_buffer, 0, current_word)

\* the scan of temp_dict_buffer for current_word (the for loop with memcmp)
RECURSIVE ScanForWord(_, _, _)
ScanForWord(temp_dict_buffer, current_word, i) ==
    IF i + Len(current_word) <= Len(temp_dict_buffer)
    THEN IF MemEq(temp_dict_buffer, i, current_word)
         THEN TRUE
         ELSE ScanForWord(temp_dict_buffer, current_word, i + 1)
    ELSE FALSE

\* parsed ++ current_word without its last character
TempDictBuffer(parsed, current_word) ==
    parsed \o (IF Len(current_word) > 1
               THEN SubSeq(current_word, 1, Len(current_word) - 1)
               ELSE << >>)

Lz76Start == [parsed |-> << >>, current_word |-> << >>, dictionary_size |-> 0, pos |-> 0]

\* one iteration of the while (pos < length) loop
Lz76Iteration(s, seq) ==
    LET cw       == Append(s.current_word, seq[s.pos + 1])
        included == ScanForWord(TempDictBuffer(s.parsed, cw), cw, 0)
    IN  IF included
        THEN [s EXCEPT !.current_word = cw, !.pos = s.pos + 1]
        ELSE [parsed          |-> s.parsed \o cw,
              current_word    |-> << >>,
              dictionary_size |-> s.dictionary_size + 1,
              pos             |-> s.pos + 1]

RECURSIVE Lz76Loop(_, _)
Lz76Loop(s, seq) ==
    IF s.pos < Len(seq) THEN Lz76Loop(Lz76Iteration(s, seq), seq) ELSE s

\* variant: the unfinished word is subtracted instead of added
TrailingWordSubtracted(s) ==
    s.dictionary_size - (IF Len(s.current_word) > 0 THEN 1 ELSE 0)

\* dictionary_size after the trailing "if (current_len > 0) dictionary_size++"
Lz76FinalCount(s) ==
    s.dictionary_size + (IF Len(s.current_word) > 0 THEN 1 ELSE 0)

\* the value returned once the loop has ended in state s
Lz76Value(s, length) ==
    IF length = 0 THEN 0 ELSE Lz76FinalCount(s) * Log2Micro(length)

\* the raw phrase count of the whole parse
Lz76RawCount(seq) == Lz76FinalCount(Lz76Loop(Lz76Start, seq))

lz76_complexity(seq) ==
    IF Len(seq) = 0 THEN 0 ELSE Lz76Value(Lz76Loop(Lz76Start, seq), Len(seq))

(***************************************************************************)
(* lz_core.c: lz78_complexity.  A dictionary entry is the C string that    *)
(* strcpy stored: the bytes of current_word before its first NUL.          *)
(***************************************************************************)
\* variant: a stored phrase is a prefix of current_word
DictWordIsPrefixOfCurrent(dictionary, current_word, i) ==
    \E k \in 1..Len(dictionary) :
        /\ Len(dictionary[k]) <= Len(current_word)
        /\ SubSeq(current_word, 1, Len(dictionary[k])) = dictionary[k]

\* the for loop over the dictionary: strlen, then memcmp of current_len bytes
RECURSIVE FoundPrefixInDict(_, _, _)
FoundPrefixInDict(dictionary, current_word, i) ==
    IF i < Len(dictionary)
    THEN LET dict_word_len == StrLen(dictionary[i + 1])
         IN  IF dict_word_len >= Len(current_word)
                /\ MemEq(dictionary[i + 1], 0, current_word)
             THEN TRUE
             ELSE FoundPrefixInDict(dictionary, current_word, i + 1)
    ELSE FALSE

Lz78Start == [dictionary |-> << >>, current_word |-> << >>, pos |-> 0]

\* one iteration of the while (pos < length) loop
Lz78Iteration(s, seq) ==
    LET cw == Append(s.current_word, seq[s.pos + 1])
    IN  IF FoundPrefixInDict(s.dictionary, cw, 0)
        THEN [s EXCEPT !.current_word = cw, !.pos = s.pos + 1]
        ELSE [dictionary   |-> Append(s.dictionary, StrCpy(cw)),
              current_word |-> << >>,
              pos          |-> s.pos + 1]

RECURSIVE Lz78Loop(_, _)
Lz78Loop(s, seq) ==
    IF s.pos < Len(seq) THEN Lz78Loop(Lz78Iteration(s, seq), seq) ELSE s

\* dict_size after the trailing "if (current_len > 0) dict_size++"
Lz78FinalCount(s) ==
    Len(s.dictionary) + (IF Len(s.current_word) > 0 THEN 1 ELSE 0)

\* After the trailing dict_size++ the cleanup loop reads dictionary[dict_size - 1],
\* a slot of the malloc'ed array that was never written, and frees it when it
\* is not NULL
Lz78FreesUninitialized(s) == Len(s.current_word) > 0

\* (double)dict_size
Lz78Value(s, length) ==
    IF length = 0 THEN 0 ELSE Lz78FinalCount(s) * 1000000

lz78_complexity(seq) ==
    IF Len(seq) = 0 THEN 0 ELSE Lz78Value(Lz78Loop(Lz78Start, seq), Len(seq))

\* whether the call lz78_complexity(seq) frees an uninitialized pointer
Lz78CallFreesUninitialized(seq) ==
    Len(seq) > 0 /\ Lz78FreesUninitialized(Lz78Loop(Lz78Start, seq))

(***************************************************************************)
(* lz_core.c: find_or_add_subsequence and block_entropy.  An entry keeps   *)
(* the dimension bytes memcpy stored (a NUL follows them) and its count.   *)
(***************************************************************************)
RECURSIVE FindSubsequence(_, _, _)
\* index (from 1) of the first entry the for loop matches, 0 if none
FindSubsequence(counts, subsequence, i) ==
    IF i < Len(counts)
    THEN IF StrLen(counts[i + 1].subsequence) = Len(subsequence)
            /\ MemEq(counts[i + 1].subsequence, 0, subsequence)
         THEN i + 1
         ELSE FindSubsequence(counts, subsequence, i + 1)
    ELSE 0

find_or_add_subsequence(counts, subsequence) ==
    LET k == FindSubsequence(counts, subsequence, 0)
    IN  IF k > 0
        THEN [counts EXCEPT ![k].count = counts[k].count + 1]
        ELSE Append(counts, [subsequence |-> subsequence, count |-> 1])

\* block_entropy returns 0.0 before allocating anything
BlockTrivial(length, dim) == length = 0 \/ dim = 0 \/ dim > length

BlockStart == [counts |-> << >>, i |-> 0]

\* one iteration of the counting loop for (i = 0; i <= length - dimension; i++)
BlockIteration(s, seq, dim) ==
    [counts |-> find_or_add_subsequence(s.counts, SubSeq(seq, s.i + 1, s.i + dim)),
     i      |-> s.i + 1]

RECURSIVE BlockLoop(_, _, _)
BlockLoop(s, seq, dim) ==
    IF s.i <= Len(seq) - dim THEN BlockLoop(BlockIteration(s, seq, dim), seq, dim) ELSE s

RECURSIVE EntropySum(_, _, _)
\* sum over the entries of count * (log2(num_blocks) - log2(count))
EntropySum(counts, num_blocks, i) ==
    IF i < Len(counts)
    THEN counts[i + 1].count * (Log2Micro(num_blocks) - Log2Micro(counts[i + 1].count))
         + EntropySum(counts, num_blocks, i + 1)
    ELSE 0

\* -sum p log2 p with p = count / num_blocks
BlockValue(s, length, dim) ==
    IF BlockTrivial(length, dim) THEN 0
    ELSE EntropySum(s.counts, length - dim + 1, 0) \div (length - dim + 1)

block_entropy(seq, dim) ==
    IF BlockTrivial(Len(seq), dim) THEN 0
    ELSE BlockValue(BlockLoop(BlockStart, seq, dim), Len(seq), dim)

(***************************************************************************)
(* lz_core.c: concat_strings and the conditional kernels                   *)
(***************************************************************************)
concat_strings(str1, str2) == str1 \o str2

\* variant: K(X) - K(XY)
ConditionalLz76Swapped(x, y) ==
    IF Len(x) = 0 THEN 0
    ELSE IF Len(y) = 0 THEN 0
    ELSE LET k_xy == lz76_complexity(concat_strings(x, y))
             k_x  == lz76_complexity(x)
         IN  IF k_xy < 0 \/ k_x < 0 THEN -1000000 ELSE k_x - k_xy

conditional_lz76_complexity(x, y) ==
    IF Len(x) = 0 THEN 0
    ELSE IF Len(y) = 0 THEN 0
    ELSE LET k_xy == lz76_complexity(concat_strings(x, y))
             k_x  == lz76_complexity(x)
         IN  IF k_xy < 0 \/ k_x < 0 THEN -1000000 ELSE k_xy - k_x

\* variant: the difference taken the other way round
ConditionalLz78Swapped(x, y) ==
    IF Len(x) = 0 THEN 0
    ELSE IF Len(y) = 0 THEN 0
    ELSE lz78_complexity(x) - lz78_complexity(concat_strings(x, y))

conditional_lz78_complexity(x, y) ==
    IF Len(x) = 0 THEN 0
    ELSE IF Len(y) = 0 THEN 0
    ELSE LET k_xy == lz78_complexity(concat_strings(x, y))
             k_x  == lz78_complexity(x)
         IN  IF k_xy < 0 \/ k_x < 0 THEN -1000000 ELSE k_xy - k_x


(***************************************************************************)
(* lz_core.c: the symmetric single-sequence kernels                        *)
(***************************************************************************)
\* reversed[i] = input_string[length - 1 - i]
Reverse(seq) == [j \in 1..Len(seq) |-> seq[Len(seq) + 1 - j]]

\* (c1 + c2) / 2.0, or -1.0 when one of the two values is negative
MeanOrError(c1, c2) == IF c1 < 0 \/ c2 < 0 THEN -1000000 ELSE (c1 + c2) \div 2

symmetric_lz78_complexity(seq) ==
    IF Len(seq) = 0 THEN 0
    ELSE MeanOrError(lz78_complexity(seq), lz78_complexity(Reverse(seq)))

symmetric_block_entropy(seq, dim) ==
    IF BlockTrivial(Len(seq), dim) THEN 0
    ELSE MeanOrError(block_entropy(seq, dim), block_entropy(Reverse(seq), dim))

(***************************************************************************)
(* The naive kernels as a state machine: one run of one kernel on one      *)
(* input; a loop iteration is a step, the return is a step.                *)
(***************************************************************************)
NaiveBytes == 0..NaiveMaxByte

\* "aababcabcd", "abababab", "abab", "abcd", "ab", "cd"
Ex_aababcabcd == <<97, 97, 98, 97, 98, 99, 97, 98, 99, 100>>
Ex_abababab   == <<97, 98, 97, 98, 97, 98, 97, 98>>
Ex_abab       == <<97, 98, 97, 98>>
Ex_ab         == <<97, 98>>
Ex_abca       == << 97, 98, 99, 97 >>
Ex_d          == << 100 >>
Ex_cd         == <<99, 100>>

NaiveInputs == SeqsUpTo(NaiveBytes, NaiveMaxLen) \cup {Ex_aababcabcd, Ex_abababab, Ex_abab}
CondInputs  == SeqsUpTo(NaiveBytes, CondMaxLen) \cup {Ex_ab, Ex_cd, Ex_abca, Ex_d}

Pending == [done |-> FALSE, value |-> 0, aborted |-> FALSE]

\* the process was ended by abort() inside free(): no value is returned
Aborted == [done |-> TRUE, value |-> 0, aborted |-> TRUE]

\* a kernel returns -1.0 when one of its allocations fails
AllocError == [done |-> TRUE, value |-> -1000000, aborted |-> FALSE]

NoHeap == [malloc_called |-> FALSE, malloc_failed |-> FALSE]

NaiveIdle ==
    /\ kernel = "none"
    /\ input_string = << >>
    /\ y_string = << >>
    /\ dimension = 0
    /\ st76 = Lz76Start
    /\ st78 = Lz78Start
    /\ stbe = BlockStart
    /\ result = Pending
    /\ heap = NoHeap

NaiveInit ==
    /\ kernel \in {"lz76", "lz78", "block_entropy", "cond_lz76", "cond_lz78",
                   "symmetric_lz78", "symmetric_block_entropy"}
    /\ input_string \in (IF kernel \in {"cond_lz76", "cond_lz78"} THEN CondInputs ELSE NaiveInputs)
    /\ y_string \in (IF kernel \in {"cond_lz76", "cond_lz78"} THEN CondInputs ELSE {<< >>})
    /\ dimension \in (IF kernel \in {"block_entropy", "symmetric_block_entropy"}
                      THEN 0..(NaiveMaxLen + 1) ELSE {0})
    /\ st76 = Lz76Start
    /\ st78 = Lz78Start
    /\ stbe = BlockStart
    /\ result = Pending
    /\ heap = NoHeap

Lz76Iter ==
    /\ kernel = "lz76" /\ ~result.done
    /\ st76.pos < Len(input_string)
    /\ st76' = Lz76Iteration(st76, input_string)
    /\ UNCHANGED <<kernel, input_string, y_string, dimension, st78, stbe, result>>
    /\ heap' = [heap EXCEPT !.malloc_called = TRUE]
    /\ UNCHANGED <<exhVars, treeVars, batchVars, memVars, loopVars>>

Lz76Return ==
    /\ kernel = "lz76" /\ ~result.done
    /\ ~(st76.pos < Len(input_string))
    /\ result' = [done |-> TRUE, value |-> Lz76Value(st76, Len(input_string)), aborted |-> FALSE]
    /\ UNCHANGED <<kernel, input_string, y_string, dimension, st76, st78, stbe>>
    /\ UNCHANGED heap
    /\ UNCHANGED <<exhVars, treeVars, batchVars, memVars, loopVars>>

Lz78Iter ==
    /\ kernel = "lz78" /\ ~result.done
    /\ st78.pos < Len(input_string)
    /\ st78' = Lz78Iteration(st78, input_string)
    /\ UNCHANGED <<kernel, input_string, y_string, dimension, st76, stbe, result>>
    /\ heap' = [heap EXCEPT !.malloc_called = TRUE]
    /\ UNCHANGED <<exhVars, treeVars, batchVars, memVars, loopVars>>

Lz78Return ==
    /\ kernel = "lz78" /\ ~result.done
    /\ ~(st78.pos < Len(input_string))
    /\ result' = [done |-> TRUE, value |-> Lz78Value(st78, Len(input_string)), aborted |-> FALSE]
    /\ UNCHANGED <<kernel, input_string, y_string, dimension, st76, st78, stbe>>
    /\ UNCHANGED heap
    /\ UNCHANGED <<exhVars, treeVars, batchVars, memVars, loopVars>>

\* the uninitialized slot holds a pointer free() rejects: the process aborts
Lz78Abort ==
    /\ kernel = "lz78" /\ ~result.done
    /\ ~(st78.pos < Len(input_string))
    /\ Len(input_string) > 0
    /\ Lz78FreesUninitialized(st78)
    /\ result' = Aborted
    /\ UNCHANGED <<kernel, input_string, y_string, dimension, st76, st78, stbe>>
    /\ UNCHANGED heap
    /\ UNCHANGED <<exhVars, treeVars, batchVars, memVars, loopVars>>

BlockIter ==
    /\ kernel = "block_entropy" /\ ~result.done
    /\ ~BlockTrivial(Len(input_string), dimension)
    /\ stbe.i <= Len(input_string) - dimension
    /\ stbe' = BlockIteration(stbe, input_string, dimension)
    /\ UNCHANGED <<kernel, input_string, y_string, dimension, st76, st78, result>>
    /\ heap' = [heap EXCEPT !.malloc_called = TRUE]
    /\ UNCHANGED <<exhVars, treeVars, batchVars, memVars, loopVars>>

BlockReturn ==
    /\ kernel = "block_entropy" /\ ~result.done
    /\ (BlockTrivial(Len(input_string), dimension) \/ ~(stbe.i <= Len(input_string) - dimension))
    /\ result' = [done |-> TRUE, value |-> BlockValue(stbe, Len(input_string), dimension), aborted |-> FALSE]
    /\ UNCHANGED <<kernel, input_string, y_string, dimension, st76, st78, stbe>>
    /\ UNCHANGED heap
    /\ UNCHANGED <<exhVars, treeVars, batchVars, memVars, loopVars>>

CondLz76Call ==
    /\ kernel = "cond_lz76" /\ ~result.done
    /\ result' = [done |-> TRUE, value |-> conditional_lz76_complexity(input_string, y_string), aborted |-> FALSE]
    /\ UNCHANGED <<kernel, input_string, y_string, dimension, st76, st78, stbe>>
    /\ heap' = [heap EXCEPT !.malloc_called = Len(input_string) > 0 /\ Len(y_string) > 0]
    /\ UNCHANGED <<exhVars, treeVars, batchVars, memVars, loopVars>>

CondLz78Call ==
    /\ kernel = "cond_lz78" /\ ~result.done
    /\ result' = [done |-> TRUE, value |-> conditional_lz78_complexity(input_string, y_string), aborted |-> FALSE]
    /\ UNCHANGED <<kernel, input_string, y_string, dimension, st76, st78, stbe>>
    /\ heap' = [heap EXCEPT !.malloc_called = Len(input_string) > 0 /\ Len(y_string) > 0]
    /\ UNCHANGED <<exhVars, treeVars, batchVars, memVars, loopVars>>

\* one of the two lz78_complexity calls aborts in its cleanup loop
CondLz78Abort ==
    /\ kernel = "cond_lz78" /\ ~result.done
    /\ Len(input_string) > 0 /\ Len(y_string) > 0
    /\ \/ Lz78CallFreesUninitialized(concat_strings(input_string, y_string))
       \/ Lz78CallFreesUninitialized(input_string)
    /\ result' = Aborted
    /\ UNCHANGED <<kernel, input_string, y_string, dimension, st76, st78, stbe>>
    /\ heap' = [heap EXCEPT !.malloc_called = TRUE]
    /\ UNCHANGED <<exhVars, treeVars, batchVars, memVars, loopVars>>

\* symmetric_lz78_complexity(input_string, length)
SymLz78Call ==
    /\ kernel = "symmetric_lz78" /\ ~result.done
    /\ result' = [done |-> TRUE, value |-> symmetric_lz78_complexity(input_string), aborted |-> FALSE]
    /\ heap' = [heap EXCEPT !.malloc_called = Len(input_string) > 0]
    /\ UNCHANGED <<kernel, input_string, y_string, dimension, st76, st78, stbe>>
    /\ UNCHANGED <<exhVars, treeVars, batchVars, memVars, loopVars>>

\* one of its two lz78_complexity calls aborts in its cleanup loop
SymLz78Abort ==
    /\ kernel = "symmetric_lz78" /\ ~result.done
    /\ \/ Lz78CallFreesUninitialized(input_string)
       \/ Lz78CallFreesUninitialized(Reverse(input_string))
    /\ result' = Aborted
    /\ heap' = [heap EXCEPT !.malloc_called = TRUE]
    /\ UNCHANGED <<kernel, input_string, y_string, dimension, st76, st78, stbe>>
    /\ UNCHANGED <<exhVars, treeVars, batchVars, memVars, loopVars>>

\* symmetric_block_entropy(input_string, length, dimension)
SymBlockCall ==
    /\ kernel = "symmetric_block_entropy" /\ ~result.done
    /\ result' = [done |-> TRUE, value |-> symmetric_block_entropy(input_string, dimension),
                  aborted |-> FALSE]
    /\ heap' = [heap EXCEPT !.malloc_called = ~BlockTrivial(Len(input_string), dimension)]
    /\ UNCHANGED <<kernel, input_string, y_string, dimension, st76, st78, stbe>>
    /\ UNCHANGED <<exhVars, treeVars, batchVars, memVars, loopVars>>

\* whether the running kernel calls malloc before its next step ends: the
\* buffers allocated on entry, temp_dict_buffer of every lz76 iteration, the
\* copy of a new lz78 phrase, the copy of a new block, the concatenation and
\* the reverse buffer
AllocatesNext ==
    CASE kernel = "lz76" -> st76.pos < Len(input_string)
      [] kernel = "lz78" ->
            /\ st78.pos < Len(input_string)
            /\ \/ st78.pos = 0
               \/ ~FoundPrefixInDict(st78.dictionary,
                                     Append(st78.current_word, input_string[st78.pos + 1]), 0)
      [] kernel = "block_entropy" ->
            /\ ~BlockTrivial(Len(input_string), dimension)
            /\ stbe.i <= Len(input_string) - dimension
            /\ \/ stbe.i = 0
               \/ FindSubsequence(stbe.counts,
                                  SubSeq(input_string, stbe.i + 1, stbe.i + dimension), 0) = 0
      [] kernel \in {"cond_lz76", "cond_lz78"} -> Len(input_string) > 0 /\ Len(y_string) > 0
      [] kernel = "symmetric_lz78" -> Len(input_string) > 0
      [] kernel = "symmetric_block_entropy" -> ~BlockTrivial(Len(input_string), dimension)
      [] OTHER -> FALSE

\* malloc returns NULL: the kernel frees what it holds and returns -1.0.  In
\* symmetric_lz78_complexity and conditional_lz78_complexity a failure inside
\* the first lz78_complexity call only makes that call return -1.0: the
\* second call (on the reversal, resp. on x) still runs before the error is
\* tested, and it may free the uninitialized slot and end the process
AllocFail ==
    /\ ~result.done
    /\ AllocatesNext
    /\ \/ result' = AllocError
       \/ /\ \/ /\ kernel = "symmetric_lz78"
                /\ Lz78CallFreesUninitialized(Reverse(input_string))
             \/ /\ kernel = "cond_lz78"
                /\ Lz78CallFreesUninitialized(input_string)
          /\ result' = Aborted
    /\ heap' = [malloc_called |-> TRUE, malloc_failed |-> TRUE]
    /\ UNCHANGED <<kernel, input_string, y_string, dimension, st76, st78, stbe>>
    /\ UNCHANGED <<exhVars, treeVars, batchVars, memVars, loopVars>>

NaiveNext ==
    \/ Lz76Iter \/ Lz76Return
    \/ Lz78Iter \/ Lz78Return \/ Lz78Abort
    \/ BlockIter \/ BlockReturn
    \/ CondLz76Call \/ CondLz78Call \/ CondLz78Abort
    \/ SymLz78Call \/ SymLz78Abort \/ SymBlockCall
    \/ AllocFail


(***************************************************************************)
(* lz_exhaustive.c: the incremental LZ state                               *)
(***************************************************************************)
Pow2(n) == 2 ^ n

\* strstr(haystack, needle) != NULL on two NUL-terminated buffers
StrStr(haystack, needle) ==
    LET h == StrCpy(haystack)
        n == StrCpy(needle)
    IN  \E i \in 0..(Len(h) - Len(n)) : MemEq(h, i, n)

lz_state_init(L_max_len) ==
    [parsed_text |-> << >>, current_word |-> << >>, dictionary_size |-> 0,
     max_len |-> L_max_len]

\* memcpy of parsed_text_len + 1 and current_word_len + 1 bytes into new buffers
lz_state_copy(src) ==
    [parsed_text     |-> SubSeq(src.parsed_text, 1, Len(src.parsed_text)),
     current_word    |-> SubSeq(src.current_word, 1, Len(src.current_word)),
     dictionary_size |-> src.dictionary_size,
     max_len         |-> src.max_len]

\* returns [ok, state]: ok is the bool result, state the LZState afterwards
advance_lz_state_in_place(s, char_to_process) ==
    IF Len(s.current_word) >= s.max_len
    THEN [ok |-> FALSE, state |-> s]
    ELSE LET cw                 == Append(s.current_word, char_to_process)
             cw_prefix_len      == Len(cw) - 1
             search_domain_text == s.parsed_text \o SubSeq(cw, 1, cw_prefix_len)
             included           == /\ Len(s.parsed_text) + cw_prefix_len >= Len(cw)
                                   /\ StrStr(search_domain_text, cw)
         IN  IF included
             THEN [ok |-> TRUE, state |-> [s EXCEPT !.current_word = cw]]
             ELSE IF Len(s.parsed_text) + Len(cw) > s.max_len
                  THEN [ok |-> FALSE, state |-> s]
                  ELSE [ok |-> TRUE,
                        state |-> [s EXCEPT !.parsed_text = s.parsed_text \o cw,
                                            !.current_word = << >>,
                                            !.dictionary_size = s.dictionary_size + 1]]

\* variant: one is added whether or not a word is unfinished
FinalDictSizeAlwaysPlusOne(s) == s.dictionary_size + 1

\* variant: the unfinished word is not counted
FinalDictSizeCompleteOnly(s) == s.dictionary_size

\* dictionary_size, plus one for a non-empty current_word (both leaf cases)
FinalDictSize(s) ==
    s.dictionary_size + (IF Len(s.current_word) > 0 THEN 1 ELSE 0)

RECURSIVE BinaryIndexFrom(_, _, _)
\* the loop "index |= 1 << (L - 1 - i)" over string_buffer[0 .. L-1]
BinaryIndexFrom(string_buffer, L, i) ==
    IF i < L
    THEN (IF string_buffer[i + 1] = 49 THEN Pow2(L - 1 - i) ELSE 0)
         + BinaryIndexFrom(string_buffer, L, i + 1)
    ELSE 0

BinaryIndex(string_buffer, L) == BinaryIndexFrom(string_buffer, L, 0)

\* variant: the prefix is not fed to the state
PrefixStateNotAdvanced(prefix, i, s, L_max) == [ok |-> TRUE, state |-> s]

RECURSIVE compute_state_for_prefix(_, _, _, _)
\* advances a fresh state over prefix[i ..]; [ok, state]
compute_state_for_prefix(prefix, i, s, L_max) ==
    IF i < Len(prefix)
    THEN LET a == advance_lz_state_in_place(s, prefix[i + 1])
         IN  IF a.ok THEN compute_state_for_prefix(prefix, i + 1, a.state, L_max)
             ELSE [ok |-> FALSE, state |-> a.state]
    ELSE [ok |-> TRUE, state |-> s]

\* task index i written as split_depth binary digits, most significant first
PrefixString(i, split_depth) ==
    [bit_idx \in 1..split_depth |->
        IF ((i \div Pow2(split_depth - bit_idx)) % 2) = 1 THEN 49 ELSE 48]

\* variant: a count beyond the tracked range is binned modulo the range
BinLeafWrapped(counts, s, max_complexity_to_track) ==
    LET final_dict_size == s.dictionary_size + (IF Len(s.current_word) > 0 THEN 1 ELSE 0)
        bin == final_dict_size % max_complexity_to_track
    IN  [counts EXCEPT ![bin] = counts[bin] + 1]

\* variant: a count beyond the tracked range is binned in the first entry
BinLeafOverflowFirst(counts, s, max_complexity_to_track) ==
    LET final_dict_size == s.dictionary_size + (IF Len(s.current_word) > 0 THEN 1 ELSE 0)
    IN  IF final_dict_size < max_complexity_to_track - 1
        THEN [counts EXCEPT ![final_dict_size] = counts[final_dict_size] + 1]
        ELSE [counts EXCEPT ![0] = counts[0] + 1]

\* the leaf of generate_recursive_for_distribution_task
BinLeaf(counts, s, max_complexity_to_track) ==
    LET final_dict_size == FinalDictSize(s)
    IN  IF final_dict_size < max_complexity_to_track - 1
        THEN [counts EXCEPT ![final_dict_size] = counts[final_dict_size] + 1]
        ELSE [counts EXCEPT ![max_complexity_to_track - 1] =
                                counts[max_complexity_to_track - 1] + 1]

RECURSIVE generate_recursive_for_distribution_task(_, _, _, _, _, _, _)
\* path is the sequence of branches (0 / 1) taken from the root of the task.
\* fail names the one branch whose lz_state_copy or advance_lz_state_in_place
\* gets NULL from malloc: the frame that wanted to take it returns at once.
\* fail = << >> means that no allocation fails.
generate_recursive_for_distribution_task(k, target_depth, s, private_counts, max_c, path, fail) ==
    IF k = target_depth
    THEN BinLeaf(private_counts, s, max_c)
    ELSE IF fail = Append(path, 0) THEN private_counts
    ELSE LET a0 == advance_lz_state_in_place(lz_state_copy(s), 48)
         IN  IF ~a0.ok THEN private_counts
             ELSE LET c0 == generate_recursive_for_distribution_task(
                                k + 1, target_depth, a0.state, private_counts, max_c,
                                Append(path, 0), fail)
                      a1 == advance_lz_state_in_place(lz_state_copy(s), 49)
                  IN  IF fail = Append(path, 1) \/ ~a1.ok THEN c0
                      ELSE generate_recursive_for_distribution_task(
                               k + 1, target_depth, a1.state, c0, max_c,
                               Append(path, 1), fail)

RECURSIVE FloorLog2(_)
\* (int)floor(log2((double)n)) for n >= 1
FloorLog2(n) == IF n <= 1 THEN 0 ELSE 1 + FloorLog2(n \div 2)

\* the split_depth computed by lz76_exhaustive_distribution
SplitDepth(actual_num_threads, L) ==
    IF actual_num_threads > 1
    THEN LET d0 == FloorLog2(actual_num_threads)
             d1 == IF Pow2(d0) < actual_num_threads /\ d0 < L THEN d0 + 1 ELSE d0
             d2 == IF d1 > L THEN L ELSE d1
         IN  IF d2 = 0 /\ L > 0 THEN 1 ELSE d2
    ELSE 0


(***************************************************************************)
(* The exhaustive enumerator as a state machine.  One call of one entry    *)
(* point.  generate_recursive runs on an explicit stack of frames          *)
(* [k, state, branch]: branch 0 / 1 is the next branch to take, 2 means    *)
(* both are done.  The parallel loop of the distribution hands task        *)
(* indices to idle threads in increasing order (schedule(dynamic)).        *)
(***************************************************************************)
Threads(n) == 0..(n - 1)

NoCall == [fn |-> "none", L |-> 0, max_complexity_to_track |-> 0,
           num_threads_requested |-> 0, pc |-> "returned",
           malloc_called |-> FALSE, alloc_failed |-> FALSE]

GenIdle == [stack |-> << >>, string_buffer |-> << >>, writes |-> << >>]

DistIdle == [actual_num_threads |-> 1, split_depth |-> 0, num_tasks |-> 0,
             prefix_states |-> << >>, next_task |-> 0, running |-> << >>,
             private_distribution_arrays |-> << >>, task_runs |-> << >>]

\* lz76_exhaustive_distribution(3, H, 5, 4)
Ex_distribution_3_5_4 ==
    [fn |-> "distribution", L |-> 3, max_complexity_to_track |-> 5,
     num_threads_requested |-> 4, pc |-> "start",
     malloc_called |-> FALSE, alloc_failed |-> FALSE]

ExhIdle ==
    /\ exh_call = NoCall
    /\ gen = GenIdle
    /\ phrase_counts_output = << >>
    /\ dist = DistIdle
    /\ counts_by_complexity = << >>

\* the caller's arrays hold old data when the call starts: -1 in every slot of
\* phrase_counts_output, 5 in every slot of counts_by_complexity
ExhInit ==
    /\ exh_call \in
          [fn : {"generate"}, L : 0..ExhMaxL, max_complexity_to_track : {0},
           num_threads_requested : {0}, pc : {"start"},
           malloc_called : {FALSE}, alloc_failed : {FALSE}]
          \cup
          [fn : {"distribution"}, L : 0..ExhMaxL, max_complexity_to_track : 0..ExhMaxC,
           num_threads_requested : 0..ExhMaxThreads, pc : {"start"},
           malloc_called : {FALSE}, alloc_failed : {FALSE}]
          \cup {Ex_distribution_3_5_4}
    /\ gen = [GenIdle EXCEPT !.writes = [i \in 0..(Pow2(exh_call.L) - 1) |-> 0]]
    /\ phrase_counts_output =
          IF exh_call.fn = "generate" THEN [i \in 0..(Pow2(exh_call.L) - 1) |-> -1] ELSE << >>
    /\ dist = DistIdle
    /\ counts_by_complexity =
          IF exh_call.fn = "distribution"
          THEN [c \in 0..(exh_call.max_complexity_to_track - 1) |-> 5] ELSE << >>

Top(stack) == stack[Len(stack)]
Pop(stack) == SubSeq(stack, 1, Len(stack) - 1)

\* lz76_exhaustive_generate up to its call of generate_recursive
GenEnter ==
    /\ exh_call.fn = "generate" /\ exh_call.pc = "start"
    /\ IF exh_call.L <= 0 \/ exh_call.L > 24
       THEN /\ exh_call' = [exh_call EXCEPT !.pc = "returned"]
            /\ UNCHANGED gen
       ELSE \/ \* lz_state_init or the malloc of string_buffer fails
               /\ exh_call' = [exh_call EXCEPT !.pc = "returned", !.malloc_called = TRUE,
                                               !.alloc_failed = TRUE]
               /\ UNCHANGED gen
            \/ /\ exh_call' = [exh_call EXCEPT !.pc = "running", !.malloc_called = TRUE]
               /\ gen' = [gen EXCEPT
                            !.stack = << [k |-> 0, state |-> lz_state_init(exh_call.L),
                                          branch |-> 0] >>,
                            !.string_buffer = [i \in 1..(exh_call.L + 1) |-> 0]]
    /\ UNCHANGED <<phrase_counts_output, dist, counts_by_complexity>>
    /\ UNCHANGED <<naiveVars, treeVars, batchVars, memVars, loopVars>>

\* generate_recursive, base case k == L
GenLeaf ==
    /\ exh_call.fn = "generate" /\ exh_call.pc = "running"
    /\ gen.stack # << >>
    /\ Top(gen.stack).k = exh_call.L
    /\ LET index == BinaryIndex(gen.string_buffer, exh_call.L)
       IN  IF index >= Pow2(exh_call.L)
           THEN /\ gen' = [gen EXCEPT !.stack = Pop(gen.stack)]
                /\ UNCHANGED phrase_counts_output
           ELSE /\ phrase_counts_output' =
                      [phrase_counts_output EXCEPT ![index] = FinalDictSize(Top(gen.stack).state)]
                /\ gen' = [gen EXCEPT !.stack = Pop(gen.stack),
                                      !.writes[index] = gen.writes[index] + 1]
    /\ UNCHANGED <<exh_call, dist, counts_by_complexity>>
    /\ UNCHANGED <<naiveVars, treeVars, batchVars, memVars, loopVars>>

\* generate_recursive, the '0' branch (branch = 0) or the '1' branch (branch = 1):
\* write string_buffer[k], copy and advance the parent state, recurse
GenBranch ==
    /\ exh_call.fn = "generate" /\ exh_call.pc = "running"
    /\ gen.stack # << >>
    /\ Top(gen.stack).k < exh_call.L
    /\ Top(gen.stack).branch \in {0, 1}
    /\ LET f   == Top(gen.stack)
           ch  == IF f.branch = 0 THEN 48 ELSE 49
           adv == advance_lz_state_in_place(lz_state_copy(f.state), ch)
           buf == [gen.string_buffer EXCEPT ![f.k + 1] = ch]
       IN  \E malloc_fails \in BOOLEAN :
              /\ malloc_fails => ~exh_call.alloc_failed
              /\ exh_call' = [exh_call EXCEPT !.alloc_failed = @ \/ malloc_fails]
              /\ IF malloc_fails \/ ~adv.ok
                 THEN gen' = [gen EXCEPT !.string_buffer = buf, !.stack = Pop(gen.stack)]
                 ELSE gen' = [gen EXCEPT
                                !.string_buffer = buf,
                                !.stack = Append([gen.stack EXCEPT
                                                    ![Len(gen.stack)].branch = f.branch + 1],
                                                 [k |-> f.k + 1, state |-> adv.state,
                                                  branch |-> 0])]
    /\ UNCHANGED <<phrase_counts_output, dist, counts_by_complexity>>
    /\ UNCHANGED <<naiveVars, treeVars, batchVars, memVars, loopVars>>

\* generate_recursive returns after its second recursive call
GenUnwind ==
    /\ exh_call.fn = "generate" /\ exh_call.pc = "running"
    /\ gen.stack # << >>
    /\ Top(gen.stack).k < exh_call.L
    /\ Top(gen.stack).branch = 2
    /\ gen' = [gen EXCEPT !.stack = Pop(gen.stack)]
    /\ UNCHANGED <<exh_call, phrase_counts_output, dist, counts_by_complexity>>
    /\ UNCHANGED <<naiveVars, treeVars, batchVars, memVars, loopVars>>

\* lz76_exhaustive_generate after generate_recursive has returned
GenExit ==
    /\ exh_call.fn = "generate" /\ exh_call.pc = "running"
    /\ gen.stack = << >>
    /\ exh_call' = [exh_call EXCEPT !.pc = "returned"]
    /\ UNCHANGED <<gen, phrase_counts_output, dist, counts_by_complexity>>
    /\ UNCHANGED <<naiveVars, treeVars, batchVars, memVars, loopVars>>

ZeroCounts(max_c) == [c \in 0..(max_c - 1) |-> 0]

\* lz76_exhaustive_distribution up to the parallel / serial loop: argument
\* checks, thread count, clearing of the output, split depth, prefix states
DistEnter ==
    /\ exh_call.fn = "distribution" /\ exh_call.pc = "start"
    /\ \E omp_max_threads \in 1..ExhMaxThreads :
       \E outcome \in {"allocated", "alloc_failed", "double_free"} :
         LET L       == exh_call.L
             max_c   == exh_call.max_complexity_to_track
             actual  == IF exh_call.num_threads_requested <= 0
                        THEN omp_max_threads ELSE exh_call.num_threads_requested
             d       == SplitDepth(actual, L)
             ntasks  == Pow2(d)
             pre     == [i \in 0..(ntasks - 1) |->
                            compute_state_for_prefix(PrefixString(i, d), 0, lz_state_init(L), L)]
         IN  IF (L <= 0 \/ L > 30) \/ max_c <= 0
             THEN /\ exh_call' = [exh_call EXCEPT !.pc = "returned"]
                  /\ UNCHANGED <<dist, counts_by_complexity>>
             ELSE IF outcome = "alloc_failed"
             THEN \* malloc of prefix_states, of prefix_string_buffer, inside
                  \* compute_state_for_prefix or of the private arrays fails:
                  \* the buffers are freed and the call returns
                  /\ exh_call' = [exh_call EXCEPT !.pc = "returned", !.malloc_called = TRUE,
                                                  !.alloc_failed = TRUE]
                  /\ counts_by_complexity' = ZeroCounts(max_c)
                  /\ UNCHANGED dist
             ELSE IF outcome = "double_free"
             THEN \* one malloc of lz_state_init fails: it frees the other buffer
                  \* and keeps the pointer, the cleanup of the caller frees it
                  \* again and free() ends the process
                  /\ exh_call' = [exh_call EXCEPT !.pc = "crashed", !.malloc_called = TRUE,
                                                  !.alloc_failed = TRUE]
                  /\ counts_by_complexity' = ZeroCounts(max_c)
                  /\ UNCHANGED dist
             ELSE IF \E i \in 0..(ntasks - 1) : ~pre[i].ok
             THEN /\ exh_call' = [exh_call EXCEPT !.pc = "returned", !.malloc_called = TRUE]
                  /\ counts_by_complexity' = ZeroCounts(max_c)
                  /\ UNCHANGED dist
             ELSE /\ counts_by_complexity' = ZeroCounts(max_c)
                  /\ dist' = [actual_num_threads |-> actual,
                              split_depth |-> d,
                              num_tasks |-> ntasks,
                              prefix_states |-> [i \in 0..(ntasks - 1) |-> pre[i].state],
                              next_task |-> 0,
                              running |-> [t \in Threads(actual) |-> -1],
                              private_distribution_arrays |->
                                  [t \in Threads(actual) |-> ZeroCounts(max_c)],
                              task_runs |-> [i \in 0..(ntasks - 1) |-> 0]]
                  /\ exh_call' = [exh_call EXCEPT
                                    !.malloc_called = TRUE,
                                    !.pc = IF actual > 1 /\ L > d THEN "parallel" ELSE "serial"]
    /\ UNCHANGED <<gen, phrase_counts_output>>
    /\ UNCHANGED <<naiveVars, treeVars, batchVars, memVars, loopVars>>

\* the branches of a sub-tree of the given depth at which an allocation can
\* fail, and << >> for none; at most one allocation fails during a call
FailPoints(depth) ==
    {<< >>} \cup (IF exh_call.alloc_failed THEN {} ELSE SeqsUpTo({0, 1}, depth) \ {<< >>})

\* a thread of the team takes the next iteration of the parallel for
TaskStart(t) ==
    /\ exh_call.fn = "distribution" /\ exh_call.pc = "parallel"
    /\ dist.running[t] = -1
    /\ dist.next_task < dist.num_tasks
    /\ dist' = [dist EXCEPT !.running[t] = dist.next_task,
                            !.next_task = dist.next_task + 1]
    /\ UNCHANGED <<exh_call, gen, phrase_counts_output, counts_by_complexity>>
    /\ UNCHANGED <<naiveVars, treeVars, batchVars, memVars, loopVars>>

\* the thread explores its sub-tree into its own private array
TaskFinish(t) ==
    /\ exh_call.fn = "distribution" /\ exh_call.pc = "parallel"
    /\ dist.running[t] # -1
    /\ LET task_idx == dist.running[t]
       IN  \E fail \in FailPoints(exh_call.L - dist.split_depth) :
              /\ dist' = [dist EXCEPT
                            !.running[t] = -1,
                            !.task_runs[task_idx] = dist.task_runs[task_idx] + 1,
                            !.private_distribution_arrays[t] =
                                generate_recursive_for_distribution_task(
                                    0, exh_call.L - dist.split_depth,
                                    dist.prefix_states[task_idx],
                                    dist.private_distribution_arrays[t],
                                    exh_call.max_complexity_to_track, << >>, fail)]
              /\ exh_call' = [exh_call EXCEPT !.alloc_failed = @ \/ fail # << >>]
    /\ UNCHANGED <<gen, phrase_counts_output, counts_by_complexity>>
    /\ UNCHANGED <<naiveVars, treeVars, batchVars, memVars, loopVars>>

\* variant: only the first thread's private array is added
AggregateFirstThread(counts, private, t, n) ==
    [c \in DOMAIN counts |-> counts[c] + private[0][c]]

RECURSIVE AggregateWithoutLast(_, _, _, _)
\* variant: the private array of the last thread is left out
AggregateWithoutLast(counts, private, t, n) ==
    IF t < n - 1
    THEN AggregateWithoutLast([c \in DOMAIN counts |-> counts[c] + private[t][c]],
                              private, t + 1, n)
    ELSE counts

RECURSIVE Aggregate(_, _, _, _)
\* counts_by_complexity[c] += private_distribution_arrays[t][c], t = from .. n-1
Aggregate(counts, private, t, n) ==
    IF t < n
    THEN Aggregate([c \in DOMAIN counts |-> counts[c] + private[t][c]], private, t + 1, n)
    ELSE counts

\* variant: the reduction starts once every task has been handed out, without
\* waiting for the threads still running one
ReduceBeforeBarrier ==
    /\ exh_call.fn = "distribution" /\ exh_call.pc = "parallel"
    /\ dist.next_task = dist.num_tasks
    /\ counts_by_complexity' =
          Aggregate(counts_by_complexity, dist.private_distribution_arrays, 0,
                    dist.actual_num_threads)
    /\ exh_call' = [exh_call EXCEPT !.pc = "returned"]
    /\ UNCHANGED <<gen, phrase_counts_output, dist>>
    /\ UNCHANGED <<naiveVars, treeVars, batchVars, memVars, loopVars>>

\* after the implicit barrier of the parallel for: the reduction and the return
DistReduce ==
    /\ exh_call.fn = "distribution" /\ exh_call.pc = "parallel"
    /\ dist.next_task = dist.num_tasks
    /\ \A t \in Threads(dist.actual_num_threads) : dist.running[t] = -1
    /\ counts_by_complexity' =
          Aggregate(counts_by_complexity, dist.private_distribution_arrays, 0,
                    dist.actual_num_threads)
    /\ exh_call' = [exh_call EXCEPT !.pc = "returned"]
    /\ UNCHANGED <<gen, phrase_counts_output, dist>>
    /\ UNCHANGED <<naiveVars, treeVars, batchVars, memVars, loopVars>>

\* one iteration of the serial for loop over the tasks
DistSerialTask ==
    /\ exh_call.fn = "distribution" /\ exh_call.pc = "serial"
    /\ dist.next_task < dist.num_tasks
    /\ \E fail \in FailPoints(exh_call.L - dist.split_depth) :
          /\ counts_by_complexity' =
                generate_recursive_for_distribution_task(
                    0, exh_call.L - dist.split_depth, dist.prefix_states[dist.next_task],
                    counts_by_complexity, exh_call.max_complexity_to_track, << >>, fail)
          /\ exh_call' = [exh_call EXCEPT !.alloc_failed = @ \/ fail # << >>]
    /\ dist' = [dist EXCEPT !.next_task = dist.next_task + 1,
                            !.task_runs[dist.next_task] = dist.task_runs[dist.next_task] + 1]
    /\ UNCHANGED <<gen, phrase_counts_output>>
    /\ UNCHANGED <<naiveVars, treeVars, batchVars, memVars, loopVars>>

DistSerialReturn ==
    /\ exh_call.fn = "distribution" /\ exh_call.pc = "serial"
    /\ dist.next_task = dist.num_tasks
    /\ exh_call' = [exh_call EXCEPT !.pc = "returned"]
    /\ UNCHANGED <<gen, phrase_counts_output, dist, counts_by_complexity>>
    /\ UNCHANGED <<naiveVars, treeVars, batchVars, memVars, loopVars>>

ExhNext ==
    \/ GenEnter \/ GenLeaf \/ GenBranch \/ GenUnwind \/ GenExit
    \/ DistEnter
    \/ \E t \in Threads(dist.actual_num_threads) : TaskStart(t)
    \/ \E t \in Threads(dist.actual_num_threads) : TaskFinish(t)
    \/ DistReduce \/ DistSerialTask \/ DistSerialReturn


(***************************************************************************)
(* online_suffix.c: the suffix tree.  A NodeC* is an index into nodes      *)
(* (NULL is 0, the root is 1); a node is [children_list, suffix_link];     *)
(* children_list is the linked list of ChildEntry [character, edge] in     *)
(* list order; an EdgeC is [start, end, dest].  Nodes are never freed      *)
(* while the tree lives.  garbage is the byte a read of text outside       *)
(* [0, text_len) yields (the read is out of bounds of the text written so  *)
(* far: its value is not determined by the program).  crashed is set when  *)
(* a NULL NodeC* is dereferenced.                                          *)
(***************************************************************************)
INF_END == -1

NULL == 0

create_suffix_tree_c(garbage_byte) ==
    [text |-> << >>,
     nodes |-> << [children_list |-> << >>, suffix_link |-> 1] >>,
     root |-> 1,
     active_node |-> 1,
     active_edge_char_index |-> -1,
     active_length |-> 0,
     remainder |-> 0,
     garbage |-> garbage_byte,
     crashed |-> FALSE]

\* tree->text[index]
TextAt(t, index) ==
    IF 0 <= index /\ index < Len(t.text) THEN t.text[index + 1] ELSE t.garbage

\* new_node_c: the node list with the new node appended (its index is the new length)
new_node_c(nodes) == Append(nodes, [children_list |-> << >>, suffix_link |-> NULL])

new_edge_c(start, end, dest) == [start |-> start, end |-> end, dest |-> dest]

\* position (from 1) in node's children_list of the entry for ch_val, 0 if none
ChildEntryIndex(nodes, node, ch_val) ==
    IF node = NULL THEN 0
    ELSE LET cl == nodes[node].children_list
         IN  IF \E i \in 1..Len(cl) : cl[i].character = ch_val
             THEN CHOOSE i \in 1..Len(cl) :
                      /\ cl[i].character = ch_val
                      /\ \A j \in 1..(i - 1) : cl[j].character # ch_val
             ELSE 0

HasChildEdge(nodes, node, ch_val) == ChildEntryIndex(nodes, node, ch_val) # 0

\* find_child_edge_by_char_internal, for a node that has the edge
ChildEdge(nodes, node, ch_val) ==
    nodes[node].children_list[ChildEntryIndex(nodes, node, ch_val)].edge

set_child_edge_c(nodes, node, ch_val, edge_to_set) ==
    IF node = NULL THEN nodes
    ELSE LET i == ChildEntryIndex(nodes, node, ch_val)
         IN  IF i # 0
             THEN [nodes EXCEPT ![node].children_list[i].edge = edge_to_set]
             ELSE [nodes EXCEPT ![node].children_list =
                      Append(nodes[node].children_list,
                             [character |-> ch_val, edge |-> edge_to_set])]

api_edge_length_c(edge, current_global_end) ==
    LET real_end == IF edge.end = INF_END THEN current_global_end ELSE edge.end
    IN  IF edge.start > real_end THEN 0 ELSE real_end - edge.start + 1

SetSuffixLink(nodes, node, target) ==
    IF node = NULL THEN nodes ELSE [nodes EXCEPT ![node].suffix_link = target]

\* the end of an iteration of the remainder loop: remainder-- and the move of
\* the active point (lines 339-361)
FollowSuffixLink(t, current_global_end) ==
    LET r == t.remainder - 1
    IN  IF t.active_node = t.root /\ t.active_length > 0
        THEN [t EXCEPT !.remainder = r,
                       !.active_length = t.active_length - 1,
                       !.active_edge_char_index =
                           current_global_end - r - (t.active_length - 1) + 1]
        ELSE IF t.active_node # t.root
        THEN IF t.active_node = NULL
             THEN [t EXCEPT !.remainder = r, !.crashed = TRUE]
             ELSE [t EXCEPT !.remainder = r,
                            !.active_node = t.nodes[t.active_node].suffix_link]
        ELSE [t EXCEPT !.remainder = r]

\* the one element of a set of one element (used to have a value computed
\* once where it is used several times)
One(S) == CHOOSE v \in S : TRUE

\* one iteration of while (tree->remainder > 0).  ls = [t, last, brk]: the tree,
\* last_new_internal_node, and whether the loop was left by break
RemainderIteration(ls, ch) ==
    One({ LET cge  == Len(t.text) - 1
              last == ls.last
              char_to_test == IF t.active_length = 0 THEN ch
                              ELSE TextAt(t, t.active_edge_char_index)
          IN  IF ~HasChildEdge(t.nodes, t.active_node, char_to_test)
              THEN \* no edge: new leaf from active_node for ch
                   One({ [t |-> FollowSuffixLink(tt, cge), last |-> NULL, brk |-> FALSE] :
                     tt \in { [t EXCEPT !.nodes = n3] :
                       n3 \in { SetSuffixLink(n2, last, t.active_node) :
                         n2 \in { set_child_edge_c(n1, t.active_node, ch,
                                                    new_edge_c(cge, INF_END, Len(n1))) :
                           n1 \in {new_node_c(t.nodes)} } } } })
              ELSE One({
                   LET elen == api_edge_length_c(e, cge)
                   IN  IF t.active_length >= elen
                       THEN \* walk down; remainder is not decremented
                            [t |-> [t EXCEPT !.active_node = e.dest,
                                             !.active_length = t.active_length - elen,
                                             !.active_edge_char_index =
                                                 t.active_edge_char_index + elen],
                             last |-> last, brk |-> FALSE]
                       ELSE IF TextAt(t, e.start + t.active_length) = ch
                       THEN \* match: extend the implicit suffix and end the phase
                            [t |-> [t EXCEPT !.active_length = t.active_length + 1,
                                             !.nodes = SetSuffixLink(t.nodes, last,
                                                                     t.active_node)],
                             last |-> NULL, brk |-> TRUE]
                       ELSE \* mismatch: split the edge (split is the node
                            \* new_node_c creates first, the new leaf the second)
                            One({ One({ [t |-> FollowSuffixLink(tt, cge), last |-> split,
                                   brk |-> FALSE] :
                              tt \in { [t EXCEPT !.nodes = n6] :
                               n6 \in { SetSuffixLink(n5, last, split) :
                                n5 \in { set_child_edge_c(n4, split,
                                            TextAt(t, e.start + t.active_length),
                                            new_edge_c(e.start + t.active_length, e.end,
                                                       e.dest)) :
                                 n4 \in { set_child_edge_c(n3, split, ch,
                                             new_edge_c(cge, INF_END, Len(n3))) :
                                  n3 \in { new_node_c(n2) :
                                   n2 \in { set_child_edge_c(n1, t.active_node,
                                               TextAt(t, e.start),
                                               new_edge_c(e.start,
                                                          e.start + t.active_length - 1,
                                                          split)) :
                                    n1 \in {new_node_c(t.nodes)} } } } } } } })
                              : split \in {Len(t.nodes) + 1} })
                   : e \in {ChildEdge(t.nodes, t.active_node, char_to_test)} })
        : t \in {ls.t} })

RECURSIVE RemainderLoop(_, _)
RemainderLoop(ls, ch) ==
    IF ls.t.remainder > 0 /\ ~ls.brk /\ ~ls.t.crashed
    THEN RemainderLoop(RemainderIteration(ls, ch), ch)
    ELSE ls

\* add_char_c: append ch, remainder++, run the remainder loop
add_char_c(t, ch) ==
    RemainderLoop([t |-> [t EXCEPT !.text = Append(t.text, ch),
                                   !.remainder = t.remainder + 1],
                   last |-> NULL, brk |-> FALSE], ch).t

RECURSIVE FindOnEdge(_, _, _, _, _, _)
\* the for loop of find_c over one edge label; "true" / "false" is find_c's return
\* value, "next" means the whole label matched and the pattern is not exhausted
\* by the loop's checks
FindOnEdge(t, e, pattern_len, pattern, idx, i) ==
    LET real_end == IF e.end = INF_END THEN Len(t.text) - 1 ELSE e.end
        current_edge_len == real_end - e.start + 1
    IN  IF i < current_edge_len
        THEN IF idx >= pattern_len THEN [res |-> "true", idx |-> idx]
             ELSE IF TextAt(t, e.start + i) # pattern[idx + 1]
             THEN [res |-> "false", idx |-> idx]
             ELSE FindOnEdge(t, e, pattern_len, pattern, idx + 1, i + 1)
        ELSE [res |-> "next", idx |-> idx]

RECURSIVE FindFromNode(_, _, _, _, _)
\* the while (current_char_in_pattern_idx < pattern_len) loop of find_c
FindFromNode(t, current_node, pattern_len, pattern, idx) ==
    IF idx < pattern_len
    THEN IF ~HasChildEdge(t.nodes, current_node, pattern[idx + 1])
         THEN FALSE
         ELSE LET e == ChildEdge(t.nodes, current_node, pattern[idx + 1])
                  r == FindOnEdge(t, e, pattern_len, pattern, idx, 0)
              IN  IF r.res = "true" THEN TRUE
                  ELSE IF r.res = "false" THEN FALSE
                  ELSE FindFromNode(t, e.dest, pattern_len, pattern, r.idx)
    ELSE TRUE

\* find_c: pattern is a NUL-terminated C string
find_c(t, pattern) ==
    IF StrLen(pattern) = 0 THEN TRUE
    ELSE FindFromNode(t, t.root, StrLen(pattern), pattern, 0)


(***************************************************************************)
(* lz_suffix.c: the LZ76 parser over the suffix tree.  The record lz holds *)
(* the fields of LZSuffixTreeCState other than base_tree, which is the     *)
(* variable tree.  current_word_buffer holds the bytes written to the      *)
(* buffer so far (bytes beyond current_word_len are stale).                *)
(***************************************************************************)
INITIAL_WORD_BUFFER_CAPACITY == 16

\* a reset that leaves the phrase count of the previous sequence in place
ResetKeepsDictionarySize(lz_tree, base_tree) ==
    [lz_tree EXCEPT !.current_word_len = 0,
                    !.has_last_char_processed_by_lz = FALSE,
                    !.last_char_processed_by_lz = 0,
                    !.lz_active_node = base_tree.root,
                    !.lz_active_edge_first_char = 0,
                    !.lz_active_length = 0,
                    !.lz_active_edge_text_start_idx = -1]

\* the LZ-specific part of internal_reset_lz_state (lines 110-131)
internal_reset_lz_state(lz_tree, base_tree) ==
    [lz_tree EXCEPT !.current_word_len = 0,
                    !.has_last_char_processed_by_lz = FALSE,
                    !.last_char_processed_by_lz = 0,
                    !.dictionary_size = 0,
                    !.lz_active_node = base_tree.root,
                    !.lz_active_edge_first_char = 0,
                    !.lz_active_length = 0,
                    !.lz_active_edge_text_start_idx = -1]

\* the fields as create_lz_suffix_tree_c leaves them before its reset
NewLz ==
    [current_word_buffer |-> << >>,
     current_word_capacity |-> INITIAL_WORD_BUFFER_CAPACITY,
     current_word_len |-> 0,
     has_last_char_processed_by_lz |-> FALSE,
     last_char_processed_by_lz |-> 0,
     dictionary_size |-> 0,
     lz_active_node |-> NULL,
     lz_active_edge_first_char |-> 0,
     lz_active_length |-> 0,
     lz_active_edge_text_start_idx |-> -1]

create_lz_suffix_tree_c(base_tree) == internal_reset_lz_state(NewLz, base_tree)

RECURSIVE is_match_in_base_tree_c(_, _, _)
\* returns [match, lz]: the return value and the LZ state it leaves
is_match_in_base_tree_c(lz_tree, base_tree, char_to_find) ==
    IF lz_tree.lz_active_node = NULL THEN [match |-> FALSE, lz |-> lz_tree]
    ELSE IF lz_tree.lz_active_length = 0
    THEN IF HasChildEdge(base_tree.nodes, lz_tree.lz_active_node, char_to_find)
         THEN LET edge == ChildEdge(base_tree.nodes, lz_tree.lz_active_node, char_to_find)
              IN  [match |-> TRUE,
                   lz |-> [lz_tree EXCEPT
                             !.lz_active_edge_first_char = TextAt(base_tree, edge.start),
                             !.lz_active_edge_text_start_idx = edge.start,
                             !.lz_active_length = 1]]
         ELSE [match |-> FALSE, lz |-> lz_tree]
    ELSE IF ~HasChildEdge(base_tree.nodes, lz_tree.lz_active_node,
                          lz_tree.lz_active_edge_first_char)
    THEN [match |-> FALSE,
          lz |-> [lz_tree EXCEPT !.lz_active_node = base_tree.root,
                                 !.lz_active_length = 0,
                                 !.lz_active_edge_first_char = 0,
                                 !.lz_active_edge_text_start_idx = -1]]
    ELSE LET current_edge == ChildEdge(base_tree.nodes, lz_tree.lz_active_node,
                                       lz_tree.lz_active_edge_first_char)
             edge_len == api_edge_length_c(current_edge, Len(base_tree.text) - 1)
         IN  IF lz_tree.lz_active_length < edge_len
             THEN IF TextAt(base_tree, current_edge.start + lz_tree.lz_active_length)
                        = char_to_find
                  THEN [match |-> TRUE,
                        lz |-> [lz_tree EXCEPT !.lz_active_length =
                                                   lz_tree.lz_active_length + 1]]
                  ELSE [match |-> FALSE, lz |-> lz_tree]
             ELSE is_match_in_base_tree_c(
                      [lz_tree EXCEPT !.lz_active_node = current_edge.dest,
                                      !.lz_active_length = 0,
                                      !.lz_active_edge_first_char = 0,
                                      !.lz_active_edge_text_start_idx = -1],
                      base_tree, char_to_find)

\* current_word_buffer[current_word_len] = current_ch, growing the buffer by
\* doubling when it is full
WriteWordBuffer(lz_tree, current_ch) ==
    LET n == lz_tree.current_word_len
        b == lz_tree.current_word_buffer
    IN  [lz_tree EXCEPT
           !.current_word_capacity =
               IF n + 1 > lz_tree.current_word_capacity
               THEN (IF lz_tree.current_word_capacity = 0
                     THEN INITIAL_WORD_BUFFER_CAPACITY
                     ELSE lz_tree.current_word_capacity * 2)
               ELSE lz_tree.current_word_capacity,
           !.current_word_buffer =
               IF n < Len(b) THEN [b EXCEPT ![n + 1] = current_ch]
               ELSE Append(b, current_ch),
           !.current_word_len = n + 1]

\* variant without the lag: the current symbol is appended to the tree before
\* the extension is tried
AddCharLzWithoutLag(lz_tree, base_tree, current_ch) ==
    LET lz1 == WriteWordBuffer(lz_tree, current_ch)
        lz2 == [lz1 EXCEPT !.last_char_processed_by_lz = current_ch,
                           !.has_last_char_processed_by_lz = TRUE]
        t1  == add_char_c(base_tree, current_ch)
    IN  IF t1.crashed THEN [added |-> FALSE, lz |-> lz2, tree |-> t1]
        ELSE LET m == is_match_in_base_tree_c(lz2, t1, current_ch)
             IN  IF m.match THEN [added |-> FALSE, lz |-> m.lz, tree |-> t1]
                 ELSE [added |-> TRUE,
                       lz |-> [m.lz EXCEPT
                                 !.dictionary_size = m.lz.dictionary_size + 1,
                                 !.lz_active_node = t1.root,
                                 !.lz_active_edge_first_char = 0,
                                 !.lz_active_length = 0,
                                 !.lz_active_edge_text_start_idx = -1,
                                 !.current_word_len = 0],
                       tree |-> t1]

\* variant in which a finished phrase leaves the current symbol in the word
\* buffer (length 1) instead of emptying it
AddCharLzKeepsSymbol(lz_tree, base_tree, current_ch) ==
    LET lz1 == WriteWordBuffer(lz_tree, current_ch)
        can_add == lz_tree.has_last_char_processed_by_lz
        lz2 == [lz1 EXCEPT !.last_char_processed_by_lz = current_ch,
                           !.has_last_char_processed_by_lz = TRUE]
        t1  == IF can_add
               THEN add_char_c(base_tree, lz_tree.last_char_processed_by_lz)
               ELSE base_tree
    IN  IF t1.crashed THEN [added |-> FALSE, lz |-> lz2, tree |-> t1]
        ELSE LET m == is_match_in_base_tree_c(lz2, t1, current_ch)
             IN  IF m.match THEN [added |-> FALSE, lz |-> m.lz, tree |-> t1]
                 ELSE [added |-> TRUE,
                       lz |-> [m.lz EXCEPT
                                 !.dictionary_size = m.lz.dictionary_size + 1,
                                 !.lz_active_node = t1.root,
                                 !.lz_active_edge_first_char = 0,
                                 !.lz_active_length = 0,
                                 !.lz_active_edge_text_start_idx = -1,
                                 !.current_word_len = 1],
                       tree |-> t1]

\* add_char_lz_c: returns [added, lz, tree]
add_char_lz_c(lz_tree, base_tree, current_ch) ==
    LET lz1 == WriteWordBuffer(lz_tree, current_ch)
        can_add_to_base_tree == lz_tree.has_last_char_processed_by_lz
        lz2 == [lz1 EXCEPT !.last_char_processed_by_lz = current_ch,
                           !.has_last_char_processed_by_lz = TRUE]
        t1  == IF can_add_to_base_tree
               THEN add_char_c(base_tree, lz_tree.last_char_processed_by_lz)
               ELSE base_tree
    IN  IF t1.crashed THEN [added |-> FALSE, lz |-> lz2, tree |-> t1]
        ELSE LET m == is_match_in_base_tree_c(lz2, t1, current_ch)
             IN  IF m.match THEN [added |-> FALSE, lz |-> m.lz, tree |-> t1]
                 ELSE [added |-> TRUE,
                       lz |-> [m.lz EXCEPT
                                 !.dictionary_size = m.lz.dictionary_size + 1,
                                 !.lz_active_node = t1.root,
                                 !.lz_active_edge_first_char = 0,
                                 !.lz_active_length = 0,
                                 !.lz_active_edge_text_start_idx = -1,
                                 !.current_word_len = 0],
                       tree |-> t1]

get_lz_complexity_c(lz_tree) ==
    IF lz_tree.current_word_len > 0 THEN lz_tree.dictionary_size + 1
    ELSE lz_tree.dictionary_size

(***************************************************************************)
(* The suffix tree and the LZ parser as state machines.  fed is the        *)
(* sequence of symbols given so far to add_char_c / add_char_lz_c since    *)
(* creation or the last reset; query is the last find_c call and its       *)
(* return value.                                                           *)
(***************************************************************************)
TreeBytes == 1..TreeMaxByte

\* the char values add_char_c is given directly (0 is a char like any other:
\* the text has an explicit length)
TreeSymbols == 0..TreeMaxByte

GarbageBytes == 0..TreeMaxByte

Patterns == SeqsUpTo(TreeBytes, PatMaxLen) \ {<< >>}

NoTree == [create_suffix_tree_c(0) EXCEPT !.nodes = << >>, !.root = NULL,
                                          !.active_node = NULL]

NoLz == NewLz

NoQuery == [pattern |-> << >>, found |-> FALSE]

NoLzBatch == [called |-> FALSE, strings |-> << >>, garbage |-> << >>,
              results |-> << >>]

TreeIdle ==
    /\ tree = NoTree
    /\ lz = NoLz
    /\ fed = << >>
    /\ query = NoQuery
    /\ process = "running"
    /\ completed = << >>
    /\ fed_before_reset = << >>
    /\ lz_batch = NoLzBatch

\* create_suffix_tree_c()
TreeInit ==
    /\ tree \in {create_suffix_tree_c(g) : g \in GarbageBytes}
    /\ lz = NoLz
    /\ fed = << >>
    /\ query = NoQuery
    /\ process = "running"
    /\ completed = << >>
    /\ fed_before_reset = << >>
    /\ lz_batch = NoLzBatch

\* tree->text_capacity as create_suffix_tree_c sets it
INITIAL_TEXT_CAPACITY == 16

\* add_char_c(t, ch) allocates: the text buffer is grown (while the capacity
\* is still the initial one), or a node, an edge or a child entry is created
AddCharAllocates(t, ch) ==
    \/ Len(t.text) + 1 >= INITIAL_TEXT_CAPACITY
    \/ add_char_c(t, ch).nodes # t.nodes

\* add_char_c(tree, ch)
AddChar ==
    /\ tree # NoTree /\ lz = NoLz /\ ~tree.crashed /\ process = "running"
    /\ Len(fed) < TreeMaxLen
    /\ \E ch \in TreeSymbols :
          /\ tree' = add_char_c(tree, ch)
          /\ fed' = Append(fed, ch)
    /\ query' = NoQuery
    /\ UNCHANGED <<lz, process, lzHist, naiveVars, exhVars, batchVars, memVars, loopVars>>

\* add_char_c(tree, ch) when malloc or realloc returns NULL: perror, then
\* exit(EXIT_FAILURE)
AddCharExit ==
    /\ tree # NoTree /\ lz = NoLz /\ ~tree.crashed /\ process = "running"
    /\ Len(fed) < TreeMaxLen
    /\ \E ch \in TreeSymbols : AddCharAllocates(tree, ch)
    /\ process' = "exited"
    /\ UNCHANGED <<tree, lz, fed, query, lzHist, naiveVars, exhVars, batchVars, memVars, loopVars>>

\* find_c(tree, pattern)
Find ==
    /\ tree # NoTree /\ lz = NoLz /\ ~tree.crashed /\ process = "running"
    /\ Len(fed) <= FindMaxTextLen
    /\ \E pattern \in Patterns :
          query' = [pattern |-> pattern, found |-> find_c(tree, pattern)]
    /\ UNCHANGED <<tree, lz, fed, process, lzHist, naiveVars, exhVars, batchVars, memVars, loopVars>>

\* free_suffix_tree_c(tree): the text, every node, edge and child entry
\* reachable from the root and the state struct are freed; no tree is left
FreeTree ==
    /\ tree # NoTree /\ lz = NoLz /\ ~tree.crashed /\ process = "running"
    /\ tree' = NoTree
    /\ fed' = << >>
    /\ query' = NoQuery
    /\ UNCHANGED <<lz, process, lzHist, naiveVars, exhVars, batchVars, memVars, loopVars>>

TreeNext == AddChar \/ AddCharExit \/ Find \/ FreeTree

\* create_lz_suffix_tree_c()
LzInit ==
    /\ tree \in {create_suffix_tree_c(g) : g \in GarbageBytes}
    /\ lz = create_lz_suffix_tree_c(tree)
    /\ fed = << >>
    /\ query = NoQuery
    /\ process = "running"
    /\ completed = << >>
    /\ fed_before_reset = << >>
    /\ lz_batch = NoLzBatch

\* add_char_lz_c(lz_tree, current_ch) allocates: the word buffer is grown, or
\* add_char_c of the previous symbol allocates
AddCharLzAllocates(lz_tree, base_tree, current_ch) ==
    \/ lz_tree.current_word_len + 1 > lz_tree.current_word_capacity
    \/ /\ lz_tree.has_last_char_processed_by_lz
       /\ AddCharAllocates(base_tree, lz_tree.last_char_processed_by_lz)

\* add_char_lz_c(lz_tree, current_ch)
AddCharLz ==
    /\ lz # NoLz /\ ~tree.crashed /\ process = "running"
    /\ Len(fed) < LzMaxLen
    /\ \E current_ch \in TreeBytes :
          LET r == add_char_lz_c(lz, tree, current_ch)
          IN  /\ lz' = r.lz
              /\ tree' = r.tree
              /\ fed' = Append(fed, current_ch)
              /\ completed' = Append(completed, r.added)
    /\ lz_batch' = NoLzBatch
    /\ UNCHANGED <<query, process, fed_before_reset, naiveVars, exhVars, batchVars, memVars, loopVars>>

\* add_char_lz_c(lz_tree, current_ch) when malloc or realloc returns NULL:
\* perror, then exit(EXIT_FAILURE)
AddCharLzExit ==
    /\ lz # NoLz /\ ~tree.crashed /\ process = "running"
    /\ Len(fed) < LzMaxLen
    /\ \E current_ch \in TreeBytes : AddCharLzAllocates(lz, tree, current_ch)
    /\ process' = "exited"
    /\ UNCHANGED <<tree, lz, fed, query, lzHist, naiveVars, exhVars, batchVars, memVars, loopVars>>

\* reset_lz_suffix_tree_c(lz_tree): the base tree is freed and created anew
ResetLz ==
    /\ lz # NoLz /\ ~tree.crashed /\ process = "running"
    /\ fed # << >> /\ Len(fed) <= LzMaxResetLen
    /\ \E g \in GarbageBytes :
          /\ tree' = create_suffix_tree_c(g)
          /\ lz' = internal_reset_lz_state(lz, tree')
    /\ fed' = << >>
    /\ completed' = << >>
    /\ fed_before_reset' = fed
    /\ lz_batch' = NoLzBatch
    /\ UNCHANGED <<query, process, naiveVars, exhVars, batchVars, memVars, loopVars>>

\* reset_lz_suffix_tree_c(lz_tree) when a malloc of create_suffix_tree_c
\* returns NULL: perror, then exit(EXIT_FAILURE)
ResetLzExit ==
    /\ lz # NoLz /\ ~tree.crashed /\ process = "running"
    /\ fed # << >> /\ Len(fed) <= LzMaxResetLen
    /\ process' = "exited"
    /\ UNCHANGED <<tree, lz, fed, query, lzHist, naiveVars, exhVars, batchVars, memVars, loopVars>>

\* the inner loop of process_lz_batch_c (lines 371-373) from index j on:
\* [lz, tree, completed], completed being the values add_char_lz_c returned
RECURSIVE FeedString(_, _, _, _, _)
FeedString(lz_tree, base_tree, current_string, j, returned) ==
    IF j >= Len(current_string) \/ base_tree.crashed
    THEN [lz |-> lz_tree, tree |-> base_tree, completed |-> returned]
    ELSE LET r == CHOOSE v \in {add_char_lz_c(lz_tree, base_tree,
                                                current_string[j + 1])} : TRUE
         IN  FeedString(r.lz, r.tree, current_string, j + 1,
                        Append(returned, r.added))

\* the loop of process_lz_batch_c from index i on; strings_array[i] is
\* [is_null, bytes], garbage[i] the byte the tree created for it reads outside
\* its text: [lz, tree, fed, completed, fed_before_reset, results]
RECURSIVE process_lz_batch_c(_, _, _, _, _)
process_lz_batch_c(st, strings_array, garbage, i, results_array) ==
    IF i >= Len(strings_array) \/ st.tree.crashed
    THEN [st EXCEPT !.results = results_array]
    ELSE LET t0  == create_suffix_tree_c(garbage[i + 1])
             lz0 == internal_reset_lz_state(st.lz, t0)
             current_string == strings_array[i + 1]
         IN  IF current_string.is_null
             THEN process_lz_batch_c(
                      [st EXCEPT !.lz = lz0, !.tree = t0, !.fed = << >>,
                                 !.completed = << >>,
                                 !.fed_before_reset = st.fed],
                      strings_array, garbage, i + 1,
                      Append(results_array, 0))
             ELSE LET f == CHOOSE v \in {FeedString(lz0, t0, current_string.bytes,
                                                     0, << >>)} : TRUE
                  IN  process_lz_batch_c(
                          [st EXCEPT !.lz = f.lz, !.tree = f.tree,
                                     !.fed = current_string.bytes,
                                     !.completed = f.completed,
                                     !.fed_before_reset = st.fed],
                          strings_array, garbage, i + 1,
                          Append(results_array, get_lz_complexity_c(f.lz)))

LzBatchStrings ==
    {[is_null |-> TRUE, bytes |-> << >>]} \cup
    {[is_null |-> FALSE, bytes |-> b] : b \in SeqsUpTo(TreeBytes, LzBatchMaxLen)}

\* process_lz_batch_c(lz_tree_state, strings_array, num_strings, results_array)
ProcessLzBatch ==
    /\ lz # NoLz /\ ~tree.crashed /\ process = "running"
    /\ Len(fed) <= LzBatchMaxFed
    /\ \E strings_array \in SeqsUpTo(LzBatchStrings, LzBatchMaxItems) :
       \E garbage \in [1..Len(strings_array) -> GarbageBytes] :
       \E r \in {process_lz_batch_c(
                       [lz |-> lz, tree |-> tree, fed |-> fed,
                        completed |-> completed,
                        fed_before_reset |-> fed_before_reset,
                        results |-> << >>],
                       strings_array, garbage, 0, << >>)} :
              /\ lz' = r.lz
              /\ tree' = r.tree
              /\ fed' = r.fed
              /\ completed' = r.completed
              /\ fed_before_reset' = r.fed_before_reset
              /\ lz_batch' = [called |-> TRUE, strings |-> strings_array,
                              garbage |-> garbage, results |-> r.results]
    /\ UNCHANGED <<query, process, naiveVars, exhVars, batchVars, memVars, loopVars>>

\* process_lz_batch_c when an allocation of one of its resets or of one of
\* its add_char_lz_c calls returns NULL: perror, then exit(EXIT_FAILURE)
ProcessLzBatchExit ==
    /\ lz # NoLz /\ ~tree.crashed /\ process = "running"
    /\ Len(fed) <= LzBatchMaxFed
    /\ \E num_strings \in 1..LzBatchMaxItems : num_strings > 0
    /\ process' = "exited"
    /\ UNCHANGED <<tree, lz, fed, query, lzHist, naiveVars, exhVars, batchVars, memVars, loopVars>>

\* free_lz_suffix_tree_c(lz_tree): the base tree (free_suffix_tree_c), the
\* word buffer and the parser struct are freed; no parser and no tree is left
FreeLz ==
    /\ lz # NoLz /\ ~tree.crashed /\ process = "running"
    /\ tree' = NoTree
    /\ lz' = NoLz
    /\ fed' = << >>
    /\ completed' = << >>
    /\ fed_before_reset' = << >>
    /\ lz_batch' = NoLzBatch
    /\ UNCHANGED <<query, process, naiveVars, exhVars, batchVars, memVars, loopVars>>

LzNext ==
    \/ AddCharLz \/ AddCharLzExit \/ ResetLz \/ ResetLzExit
    \/ ProcessLzBatch \/ ProcessLzBatchExit \/ FreeLz

(***************************************************************************)
(* lz_core.c: the batch kernels.  omp_set_num_threads(n_threads), then a   *)
(* parallel loop with schedule(dynamic): a worker takes the next loop      *)
(* index, runs the loop body for it, and takes the next one.  The          *)
(* symmetric kernels keep one reverse buffer per worker, grown by realloc. *)
(***************************************************************************)
BatchKernels == {"lz76_complexity_parallel_original", "symmetric_lz76_parallel_original",
                 "lz78_complexity_parallel", "symmetric_lz78_parallel",
                 "block_entropy_parallel", "symmetric_block_entropy_parallel",
                 "conditional_lz76_parallel", "conditional_lz78_parallel"}

SymmetricKernels == {"symmetric_lz76_parallel_original", "symmetric_lz78_parallel",
                     "symmetric_block_entropy_parallel"}

ConditionalKernels == {"conditional_lz76_parallel", "conditional_lz78_parallel"}

BlockKernels == {"block_entropy_parallel", "symmetric_block_entropy_parallel"}

\* the value the loop body of a non-symmetric batch kernel stores when no
\* allocation fails
PlainValue(fn, x, y, dim) ==
    CASE fn = "lz76_complexity_parallel_original" -> lz76_complexity(x)
      [] fn = "lz78_complexity_parallel"          -> lz78_complexity(x)
      [] fn = "block_entropy_parallel"            -> block_entropy(x, dim)
      [] fn = "conditional_lz76_parallel"         -> conditional_lz76_complexity(x, y)
      [] fn = "conditional_lz78_parallel"         -> conditional_lz78_complexity(x, y)

\* whether the per-sequence kernel calls malloc at all (it returns 0.0 before
\* its first malloc on a trivial input)
PlainAllocates(fn, x, y, dim) ==
    CASE fn = "lz76_complexity_parallel_original" -> Len(x) > 0
      [] fn = "lz78_complexity_parallel"          -> Len(x) > 0
      [] fn = "block_entropy_parallel"            -> ~BlockTrivial(Len(x), dim)
      [] fn = "conditional_lz76_parallel"         -> Len(x) > 0 /\ Len(y) > 0
      [] fn = "conditional_lz78_parallel"         -> Len(x) > 0 /\ Len(y) > 0

\* whether a lz78_complexity call of the loop body frees an uninitialized pointer
PlainFreesUninitialized(fn, x, y) ==
    CASE fn = "lz78_complexity_parallel"  -> Lz78CallFreesUninitialized(x)
      [] fn = "conditional_lz78_parallel" ->
             /\ Len(x) > 0 /\ Len(y) > 0
             /\ \/ Lz78CallFreesUninitialized(concat_strings(x, y))
                \/ Lz78CallFreesUninitialized(x)
      [] OTHER -> FALSE

\* the two kernel calls of a symmetric loop body, on the input and on the
\* first length bytes of the worker's reverse buffer
SymmetricKernel(fn, seq, dim) ==
    CASE fn = "symmetric_lz76_parallel_original" -> lz76_complexity(seq)
      [] fn = "symmetric_lz78_parallel"          -> lz78_complexity(seq)
      [] fn = "symmetric_block_entropy_parallel" -> block_entropy(seq, dim)

SymmetricAllocates(fn, x, dim) ==
    IF fn = "symmetric_block_entropy_parallel" THEN ~BlockTrivial(Len(x), dim) ELSE Len(x) > 0

\* realloc(reversed, lengths[i] + 1): the old bytes are kept, the new ones
\* are whatever the allocator returns (0 here; all are overwritten below)
Realloc(reversed, size) ==
    [j \in 1..size |-> IF j <= Len(reversed) THEN reversed[j] ELSE 0]

\* the for loop filling reversed[0..length-1] and reversed[length] = '\0';
\* the bytes behind the terminator keep what an earlier item left there
WriteReversed(reversed, x) ==
    [j \in 1..Len(reversed) |->
        IF j <= Len(x) THEN x[Len(x) + 1 - j]
        ELSE IF j = Len(x) + 1 THEN 0
        ELSE reversed[j]]

\* The part of a symmetric loop body before the reversal: what the worker's
\* buffer is afterwards and whether the body has stored -1.0 and continued.
\* A worker's buffer is NULL when it is the empty sequence.
GrowReversed(fn, w, length, realloc_fails) ==
    IF length > w.max_len
    THEN IF realloc_fails
         THEN IF fn = "symmetric_lz76_parallel_original" /\ w.reversed # << >>
              THEN [w |-> [w EXCEPT !.max_len = length], skipped |-> FALSE]
              ELSE [w |-> w, skipped |-> TRUE]
         ELSE [w |-> [w EXCEPT !.reversed = Realloc(w.reversed, length + 1),
                               !.max_len = length],
               skipped |-> FALSE]
    ELSE [w |-> w, skipped |-> FALSE]

\* reversed[lengths[i]] = '\0' with reversed == NULL
WritesThroughNull(w, length) == w.reversed = << >>

\* the reversal writes behind the end of the buffer realloc did not grow
OverflowsReversed(w, length) == w.reversed # << >> /\ Len(w.reversed) < length + 1

SymmetricFreesUninitialized(fn, x) ==
    /\ fn = "symmetric_lz78_parallel"
    /\ \/ Lz78CallFreesUninitialized(x)
       \/ Lz78CallFreesUninitialized(Reverse(x))

BatchIdleWorker == [pc |-> "idle", i |-> 0, reversed |-> << >>, max_len |-> 0]

BatchBytes == 0..BatchMaxByte

BatchStrings == SeqsUpTo(BatchBytes, BatchMaxLen)

\* an item is one x_strings[i] (input_strings[i]) with its y_strings[i]
BatchItems(fn) ==
    IF fn \in ConditionalKernels
    THEN [x : BatchStrings, y : SeqsUpTo(BatchBytes, BatchMaxYLen)]
    ELSE [x : BatchStrings, y : {<< >>}]

NoBatch == [fn |-> "none", items |-> << >>, dimension |-> 0, n_threads |-> 0, pc |-> "none"]

BatchIdle ==
    /\ batch = NoBatch
    /\ workers = << >>
    /\ next_i = 0
    /\ results = << >>
    /\ written = << >>
    /\ failed = {}

\* a batch kernel has been called and its team has entered the parallel
\* region; results holds what the caller left in it
BatchInit ==
    /\ \E fn \in BatchKernels :
       \E items \in SeqsUpTo(BatchItems(fn), BatchMaxItems) :
       \E dim \in (IF fn \in BlockKernels THEN 0..BatchMaxDim ELSE {0}) :
       \E n_threads \in 1..BatchMaxThreads :
          /\ batch = [fn |-> fn, items |-> items, dimension |-> dim,
                      n_threads |-> n_threads, pc |-> "parallel"]
          /\ workers = [t \in 1..n_threads |-> BatchIdleWorker]
          /\ results = [i \in 1..Len(items) |-> 123]
          /\ written = [i \in 1..Len(items) |-> << >>]
    /\ next_i = 0
    /\ failed = {}

\* results[i] = value, by worker t
Store(t, i, value) ==
    /\ results' = [results EXCEPT ![i + 1] = value]
    /\ written' = [written EXCEPT ![i + 1] = Append(@, t)]

\* schedule(dynamic): worker t is handed the next loop index
BatchTake(t) ==
    /\ batch.pc = "parallel"
    /\ workers[t].pc = "idle"
    /\ next_i < Len(batch.items)
    /\ workers' = [workers EXCEPT ![t].pc = "item", ![t].i = next_i]
    /\ next_i' = next_i + 1
    /\ UNCHANGED <<batch, results, written, failed>>
    /\ UNCHANGED <<naiveVars, exhVars, treeVars, memVars, loopVars>>

\* loop body of the non-symmetric kernels: results[i] = kernel(inputs[i])
BatchPlainItem(t) ==
    /\ batch.pc = "parallel"
    /\ batch.fn \notin SymmetricKernels
    /\ workers[t].pc = "item"
    /\ LET i    == workers[t].i
           item == batch.items[i + 1]
       IN  \E malloc_fails \in BOOLEAN :
              LET fails == malloc_fails /\ PlainAllocates(batch.fn, item.x, item.y, batch.dimension)
              IN  /\ Store(t, i, IF fails THEN -1000000
                                 ELSE PlainValue(batch.fn, item.x, item.y, batch.dimension))
                  /\ failed' = IF fails THEN failed \cup {i} ELSE failed
    /\ workers' = [workers EXCEPT ![t].pc = "idle"]
    /\ UNCHANGED <<batch, next_i>>
    /\ UNCHANGED <<naiveVars, exhVars, treeVars, memVars, loopVars>>

\* loop body of the symmetric kernels when every write stays inside the
\* worker's buffer
BatchSymmetricItem(t) ==
    /\ batch.pc = "parallel"
    /\ batch.fn \in SymmetricKernels
    /\ workers[t].pc = "item"
    /\ LET i      == workers[t].i
           x      == batch.items[i + 1].x
           length == Len(x)
       IN  \E realloc_fails, malloc_fails \in BOOLEAN :
              LET g == GrowReversed(batch.fn, workers[t], length,
                                    realloc_fails)
                  grow_failed == realloc_fails /\ length > workers[t].max_len
                  fails == malloc_fails /\ SymmetricAllocates(batch.fn, x, batch.dimension)
              IN  IF g.skipped \/ (g.w.reversed = << >> /\ length > 0)
                  THEN /\ Store(t, i, -1000000)
                       /\ failed' = failed \cup {i}
                       /\ workers' = [workers EXCEPT ![t] = [g.w EXCEPT !.pc = "idle"]]
                  ELSE /\ ~WritesThroughNull(g.w, length)
                       /\ ~OverflowsReversed(g.w, length)
                       /\ LET reversed == WriteReversed(g.w.reversed, x)
                              c1 == SymmetricKernel(batch.fn, x, batch.dimension)
                              c2 == SymmetricKernel(batch.fn, Prefix(reversed, length),
                                                    batch.dimension)
                          IN  /\ Store(t, i, IF fails THEN -1000000 ELSE MeanOrError(c1, c2))
                              /\ failed' = IF fails \/ grow_failed THEN failed \cup {i} ELSE failed
                              /\ workers' = [workers EXCEPT
                                               ![t] = [g.w EXCEPT !.pc = "idle",
                                                                  !.reversed = reversed]]
    /\ UNCHANGED <<batch, next_i>>
    /\ UNCHANGED <<naiveVars, exhVars, treeVars, memVars, loopVars>>

\* symmetric_lz76_parallel_original after a failed realloc of an existing
\* buffer: the reversal runs over the end of the old buffer.  In this outcome
\* the bytes behind the buffer are read back as written
BatchOverflowItem(t) ==
    /\ batch.pc = "parallel"
    /\ batch.fn = "symmetric_lz76_parallel_original"
    /\ workers[t].pc = "item"
    /\ LET i      == workers[t].i
           x      == batch.items[i + 1].x
           length == Len(x)
           g      == GrowReversed(batch.fn, workers[t], length, length > workers[t].max_len)
       IN  /\ ~g.skipped
           /\ OverflowsReversed(g.w, length)
           /\ \E malloc_fails \in BOOLEAN :
                 /\ Store(t, i, IF malloc_fails THEN -1000000
                                ELSE MeanOrError(lz76_complexity(x), lz76_complexity(Reverse(x))))
                 /\ failed' = IF malloc_fails \/ length > workers[t].max_len
                              THEN failed \cup {i} ELSE failed
           /\ workers' = [workers EXCEPT
                            ![t] = [g.w EXCEPT !.pc = "idle",
                                               !.reversed = Prefix(Reverse(x) \o <<0>>,
                                                                   Len(g.w.reversed))]]
    /\ UNCHANGED <<batch, next_i>>
    /\ UNCHANGED <<naiveVars, exhVars, treeVars, memVars, loopVars>>

\* a loop body ends the process: a write through the NULL buffer (an empty
\* input on a worker that has no buffer yet), a write behind the end of the
\* buffer that damages the heap, or lz78_complexity freeing an uninitialized
\* pointer that free() rejects.  An allocation of the body may have failed
\* before: the realloc of the buffer, a malloc of a kernel call that follows
\* the damaging write, or a malloc of the first of the two lz78_complexity
\* calls (it returns -1.0) when it is the second one that frees the pointer
BatchCrash(t) ==
    /\ batch.pc = "parallel"
    /\ workers[t].pc = "item"
    /\ LET i      == workers[t].i
           item   == batch.items[i + 1]
           length == Len(item.x)
       IN  IF batch.fn \in SymmetricKernels
           THEN \E realloc_fails, malloc_fails \in BOOLEAN :
                   LET g == GrowReversed(batch.fn, workers[t], length, realloc_fails)
                   IN  /\ ~g.skipped
                       /\ IF malloc_fails
                          THEN /\ SymmetricAllocates(batch.fn, item.x, batch.dimension)
                               /\ \/ OverflowsReversed(g.w, length)
                                  \/ /\ batch.fn = "symmetric_lz78_parallel"
                                     /\ ~WritesThroughNull(g.w, length)
                                     /\ Lz78CallFreesUninitialized(Reverse(item.x))
                          ELSE \/ WritesThroughNull(g.w, length)
                               \/ OverflowsReversed(g.w, length)
                               \/ SymmetricFreesUninitialized(batch.fn, item.x)
                       /\ failed' = IF malloc_fails
                                       \/ (realloc_fails /\ length > workers[t].max_len)
                                    THEN failed \cup {i} ELSE failed
           ELSE \E malloc_fails \in BOOLEAN :
                   /\ IF malloc_fails
                      THEN /\ batch.fn = "conditional_lz78_parallel"
                           /\ Len(item.x) > 0 /\ Len(item.y) > 0
                           /\ Lz78CallFreesUninitialized(item.x)
                      ELSE PlainFreesUninitialized(batch.fn, item.x, item.y)
                   /\ failed' = IF malloc_fails THEN failed \cup {i} ELSE failed
    /\ batch' = [batch EXCEPT !.pc = "crashed"]
    /\ UNCHANGED <<workers, next_i, results, written>>
    /\ UNCHANGED <<naiveVars, exhVars, treeVars, memVars, loopVars>>

\* no loop index is left for worker t of a symmetric kernel: it leaves the
\* loop and waits, its buffer still allocated, at the barrier that ends
\* `#pragma omp for`
BatchLeaveLoop(t) ==
    /\ batch.pc = "parallel"
    /\ batch.fn \in SymmetricKernels
    /\ workers[t].pc = "idle"
    /\ ~(next_i < Len(batch.items))
    /\ workers' = [workers EXCEPT ![t].pc = "barrier"]
    /\ UNCHANGED <<batch, next_i, results, written, failed>>
    /\ UNCHANGED <<naiveVars, exhVars, treeVars, memVars, loopVars>>

\* worker t has ended its part of the parallel region.  Symmetric kernels:
\* every worker has arrived at the barrier of the loop, t passes it and
\* calls free(reversed).  The other kernels (`#pragma omp parallel for`): no
\* loop index is left for t
BatchWorkerDone(t) ==
    /\ batch.pc = "parallel"
    /\ IF batch.fn \in SymmetricKernels
       THEN /\ workers[t].pc = "barrier"
            /\ \A u \in DOMAIN workers : workers[u].pc \in {"barrier", "done"}
       ELSE /\ workers[t].pc = "idle"
            /\ ~(next_i < Len(batch.items))
    /\ workers' = [workers EXCEPT ![t] = [BatchIdleWorker EXCEPT !.pc = "done"]]
    /\ UNCHANGED <<batch, next_i, results, written, failed>>
    /\ UNCHANGED <<naiveVars, exhVars, treeVars, memVars, loopVars>>

\* the parallel region has joined: the batch kernel returns
BatchReturn ==
    /\ batch.pc = "parallel"
    /\ \A t \in DOMAIN workers : workers[t].pc = "done"
    /\ batch' = [batch EXCEPT !.pc = "returned"]
    /\ UNCHANGED <<workers, next_i, results, written, failed>>
    /\ UNCHANGED <<naiveVars, exhVars, treeVars, memVars, loopVars>>

BatchNext ==
    \/ \E t \in DOMAIN workers : BatchTake(t)
    \/ \E t \in DOMAIN workers : BatchPlainItem(t)
    \/ \E t \in DOMAIN workers : BatchSymmetricItem(t)
    \/ \E t \in DOMAIN workers : BatchOverflowItem(t)
    \/ \E t \in DOMAIN workers : BatchCrash(t)
    \/ \E t \in DOMAIN workers : BatchLeaveLoop(t)
    \/ \E t \in DOMAIN workers : BatchWorkerDone(t)
    \/ BatchReturn

(***************************************************************************)
(* lz_exhaustive.c: the LZState buffers as memory.  An address is an index *)
(* into mem_heap (NULL is 0); a block is [live, bytes].  malloc gives the  *)
(* lowest address that is not live; a freed block keeps no bytes.  An      *)
(* LZState struct is [parsed_text, parsed_text_len, current_word,          *)
(* current_word_len, dictionary_size, max_len], parsed_text and            *)
(* current_word being addresses.  A call of                                *)
(* generate_recursive_for_distribution_task is a frame [k, state, branch,  *)
(* owned, path, entry]: branch 0 / 1 is the next branch to take, 2 means   *)
(* both are done; owned tells that state is a state_for_0 / state_for_1 of *)
(* the calling frame, whose buffers the caller frees when the call         *)
(* returns; path is the string consumed so far and entry the contents of   *)
(* state when the call started.  The search_domain_text buffer of          *)
(* advance_lz_state_in_place is allocated and freed inside one step.       *)
(***************************************************************************)
UNINIT == -1

MemFreeAddr(h) ==
    IF \E a \in 1..Len(h) : ~h[a].live
    THEN CHOOSE a \in 1..Len(h) : ~h[a].live /\ \A b \in 1..(a - 1) : h[b].live
    ELSE Len(h) + 1

\* malloc(size): [heap, addr]
MemAlloc(h, size) ==
    LET a   == MemFreeAddr(h)
        blk == [live |-> TRUE, bytes |-> [i \in 1..size |-> UNINIT]]
    IN  [heap |-> IF a > Len(h) THEN Append(h, blk) ELSE [h EXCEPT ![a] = blk],
         addr |-> a]

\* free(a)
MemFree(h, a) ==
    IF a = NULL THEN h ELSE [h EXCEPT ![a] = [live |-> FALSE, bytes |-> << >>]]

\* memcpy(a + off, bytes, |bytes|)
MemWrite(h, a, off, bytes) ==
    [h EXCEPT ![a].bytes =
        [i \in 1..Len(h[a].bytes) |->
            IF off < i /\ i <= off + Len(bytes) THEN bytes[i - off] ELSE h[a].bytes[i]]]

\* the n bytes at a + off (a byte outside the block reads as uninitialised)
MemRead(h, a, off, n) ==
    [i \in 1..n |-> IF off + i <= Len(h[a].bytes) THEN h[a].bytes[off + i] ELSE UNINIT]

\* variant: the copy shares the buffers of its source
LzStateCopyShared(h, src) == [heap |-> h, state |-> src]

\* lz_state_copy at the level of buffers: [heap, state]
LzStateCopy(h, src) ==
    LET a1 == MemAlloc(h, src.max_len + 1)
        a2 == MemAlloc(a1.heap, src.max_len + 1)
        h1 == MemWrite(a2.heap, a1.addr, 0,
                       MemRead(a2.heap, src.parsed_text, 0, src.parsed_text_len + 1))
        h2 == MemWrite(h1, a2.addr, 0,
                       MemRead(h1, src.current_word, 0, src.current_word_len + 1))
    IN  [heap |-> h2,
         state |-> [parsed_text |-> a1.addr, parsed_text_len |-> src.parsed_text_len,
                    current_word |-> a2.addr, current_word_len |-> src.current_word_len,
                    dictionary_size |-> src.dictionary_size, max_len |-> src.max_len]]

\* lz_state_init at the level of buffers: [heap, state]
LzStateInit(h, L_max_len) ==
    LET a1 == MemAlloc(h, L_max_len + 1)
        a2 == MemAlloc(a1.heap, L_max_len + 1)
    IN  [heap |-> MemWrite(MemWrite(a2.heap, a1.addr, 0, << 0 >>), a2.addr, 0, << 0 >>),
         state |-> [parsed_text |-> a1.addr, parsed_text_len |-> 0,
                    current_word |-> a2.addr, current_word_len |-> 0,
                    dictionary_size |-> 0, max_len |-> L_max_len]]

\* lz_state_free_buffers
LzStateFreeBuffers(h, state) == MemFree(MemFree(h, state.parsed_text), state.current_word)

\* variant: at the end of a phrase the current word is dropped instead of
\* being appended to parsed_text
AdvanceLzStateDropsWord(h, s, char_to_process) ==
    IF s.current_word_len >= s.max_len
    THEN [ok |-> FALSE, heap |-> h, state |-> s, overflow |-> TRUE]
    ELSE LET cwl == s.current_word_len + 1
             h1  == MemWrite(h, s.current_word, s.current_word_len, << char_to_process, 0 >>)
             cw_prefix_len == cwl - 1
             search_domain_text ==
                 MemRead(h1, s.parsed_text, 0, s.parsed_text_len)
                 \o MemRead(h1, s.current_word, 0, cw_prefix_len) \o << 0 >>
             included ==
                 /\ s.parsed_text_len + cw_prefix_len >= cwl
                 /\ StrStr(search_domain_text, h1[s.current_word].bytes)
         IN  IF included
             THEN [ok |-> TRUE, heap |-> h1,
                   state |-> [s EXCEPT !.current_word_len = cwl], overflow |-> FALSE]
             ELSE IF s.parsed_text_len + cwl > s.max_len
             THEN [ok |-> FALSE,
                   heap |-> MemWrite(h1, s.current_word, cwl - 1, << 0 >>),
                   state |-> s, overflow |-> TRUE]
             ELSE [ok |-> TRUE, heap |-> MemWrite(h1, s.current_word, 0, << 0 >>),
                   state |-> [s EXCEPT !.current_word_len = 0,
                                       !.dictionary_size = s.dictionary_size + 1],
                   overflow |-> FALSE]

\* advance_lz_state_in_place at the level of buffers: [ok, heap, state, overflow]
\* (overflow: one of the two buffer overflow branches was taken)
AdvanceLzStateInPlace(h, s, char_to_process) ==
    IF s.current_word_len >= s.max_len
    THEN [ok |-> FALSE, heap |-> h, state |-> s, overflow |-> TRUE]
    ELSE LET cwl == s.current_word_len + 1
             h1  == MemWrite(h, s.current_word, s.current_word_len, << char_to_process, 0 >>)
             cw_prefix_len == cwl - 1
             search_domain_text ==
                 MemRead(h1, s.parsed_text, 0, s.parsed_text_len)
                 \o MemRead(h1, s.current_word, 0, cw_prefix_len) \o << 0 >>
             included ==
                 /\ s.parsed_text_len + cw_prefix_len >= cwl
                 /\ StrStr(search_domain_text, h1[s.current_word].bytes)
         IN  IF included
             THEN [ok |-> TRUE, heap |-> h1,
                   state |-> [s EXCEPT !.current_word_len = cwl], overflow |-> FALSE]
             ELSE IF s.parsed_text_len + cwl > s.max_len
             THEN [ok |-> FALSE,
                   heap |-> MemWrite(h1, s.current_word, cwl - 1, << 0 >>),
                   state |-> s, overflow |-> TRUE]
             ELSE LET h2 == MemWrite(h1, s.parsed_text, s.parsed_text_len,
                                     MemRead(h1, s.current_word, 0, cwl))
                      h3 == MemWrite(h2, s.parsed_text, s.parsed_text_len + cwl, << 0 >>)
                      h4 == MemWrite(h3, s.current_word, 0, << 0 >>)
                  IN  [ok |-> TRUE, heap |-> h4,
                       state |-> [s EXCEPT !.parsed_text_len = s.parsed_text_len + cwl,
                                           !.current_word_len = 0,
                                           !.dictionary_size = s.dictionary_size + 1],
                       overflow |-> FALSE]

\* what a struct holds: the bytes of its two buffers up to their lengths
StateContents(h, s) ==
    [parsed_text     |-> MemRead(h, s.parsed_text, 0, s.parsed_text_len),
     current_word    |-> MemRead(h, s.current_word, 0, s.current_word_len),
     dictionary_size |-> s.dictionary_size,
     max_len         |-> s.max_len]

RECURSIVE ComputeStateForPrefix(_, _, _, _)
\* compute_state_for_prefix after its lz_state_init: [heap, state]
ComputeStateForPrefix(h, s, prefix, i) ==
    IF i < Len(prefix)
    THEN LET a == CHOOSE v \in {AdvanceLzStateInPlace(h, s, prefix[i + 1])} : TRUE
         IN  ComputeStateForPrefix(a.heap, a.state, prefix, i + 1)
    ELSE [heap |-> h, state |-> s]

RECURSIVE ComputePrefixStates(_, _, _, _, _, _)
\* the loop over the prefixes from index i up to num_tasks (2^d when no
\* allocation fails): [heap, states]
ComputePrefixStates(h, states, i, num_tasks, d, L) ==
    IF i < num_tasks
    THEN LET init == CHOOSE v \in {LzStateInit(h, L)} : TRUE
             c    == CHOOSE v \in {ComputeStateForPrefix(init.heap, init.state,
                                                          PrefixString(i, d), 0)} : TRUE
         IN  ComputePrefixStates(c.heap, Append(states, c.state), i + 1, num_tasks, d, L)
    ELSE [heap |-> h, states |-> states]

\* lz_state_init when exactly one of its two malloc calls returns NULL: the
\* block of the other one is freed, and its address stays in the struct
LzStateInitFails(h, L_max_len) ==
    LET a == MemAlloc(h, L_max_len + 1)
    IN  MemFree(a.heap, a.addr)

RECURSIVE FreePrefixStates(_, _, _)
\* the cleanup loop over prefix_states
FreePrefixStates(h, states, i) ==
    IF i <= Len(states)
    THEN FreePrefixStates(LzStateFreeBuffers(h, states[i]), states, i + 1)
    ELSE h

NoMemCall == [L |-> 0, num_threads |-> 1, split_depth |-> 0, pc |-> "returned",
              alloc_failed |-> FALSE, overflow |-> FALSE]

MemIdle ==
    /\ mem_call = NoMemCall
    /\ mem_heap = << >>
    /\ mem_prefix_states = << >>
    /\ mem_workers = << >>
    /\ mem_next_task = 0

\* lz76_exhaustive_distribution(L, H, Cmax, num_threads) is called
MemInit ==
    /\ mem_call \in
          {[L |-> L, num_threads |-> n, split_depth |-> SplitDepth(n, L), pc |-> "start",
            alloc_failed |-> FALSE, overflow |-> FALSE] :
             L \in 1..MemMaxL, n \in 1..MemMaxThreads}
    /\ mem_heap = << >>
    /\ mem_prefix_states = << >>
    /\ mem_workers = << >>
    /\ mem_next_task = 0

\* the threads that run tasks: the team of the parallel loop, or the caller
MemTeam ==
    IF mem_call.num_threads > 1 /\ mem_call.L > mem_call.split_depth
    THEN 1..mem_call.num_threads ELSE {1}

\* the prefix states are computed.  Or an allocation fails: when it is the
\* prefix_states array, the prefix_string_buffer, or both buffers of a
\* lz_state_init, everything allocated is freed and the call returns; when
\* it is one of the two buffers of the lz_state_init of prefix i,
\* lz_state_init frees the other one, the cleanup of the caller frees the
\* buffers of the states 0..i-1 (their pointers become NULL) and then frees
\* that buffer again through the pointer left in struct i: free() ends the
\* process
MemEnter ==
    /\ mem_call.pc = "start"
    /\ \/ /\ mem_call' = [mem_call EXCEPT !.pc = "returned", !.alloc_failed = TRUE]
          /\ UNCHANGED <<mem_heap, mem_prefix_states, mem_workers, mem_next_task>>
       \/ \E i \in 0..(Pow2(mem_call.split_depth) - 1) :
          \E r \in {ComputePrefixStates(mem_heap, << >>, 0, i, mem_call.split_depth,
                                         mem_call.L)} :
             /\ mem_heap' = FreePrefixStates(LzStateInitFails(r.heap, mem_call.L),
                                             r.states, 1)
             /\ mem_prefix_states' =
                   [j \in 1..Len(r.states) |->
                       [r.states[j] EXCEPT !.parsed_text = NULL, !.current_word = NULL]]
             /\ mem_call' = [mem_call EXCEPT !.pc = "crashed", !.alloc_failed = TRUE]
             /\ UNCHANGED <<mem_workers, mem_next_task>>
       \/ \E r \in {ComputePrefixStates(mem_heap, << >>, 0, Pow2(mem_call.split_depth),
                                         mem_call.split_depth, mem_call.L)} :
             /\ mem_heap' = r.heap
             /\ mem_prefix_states' = r.states
             /\ mem_workers' = [w \in MemTeam |-> << >>]
             /\ mem_next_task' = 0
             /\ mem_call' = [mem_call EXCEPT !.pc = "tasks"]
    /\ UNCHANGED <<naiveVars, exhVars, treeVars, batchVars, loopVars>>

\* a thread takes the next task: generate_recursive_for_distribution_task(0,
\* L - split_depth, &prefix_states[task_idx], ...) is called
MemTakeTask(w) ==
    /\ mem_call.pc = "tasks"
    /\ mem_workers[w] = << >>
    /\ mem_next_task < Len(mem_prefix_states)
    /\ mem_workers' =
          [mem_workers EXCEPT ![w] =
              << [k |-> 0, state |-> mem_prefix_states[mem_next_task + 1], branch |-> 0,
                  owned |-> FALSE,
                  path |-> PrefixString(mem_next_task, mem_call.split_depth),
                  entry |-> StateContents(mem_heap, mem_prefix_states[mem_next_task + 1])] >>]
    /\ mem_next_task' = mem_next_task + 1
    /\ UNCHANGED <<mem_call, mem_heap, mem_prefix_states>>
    /\ UNCHANGED <<naiveVars, exhVars, treeVars, batchVars, loopVars>>

\* the call of the top frame returns: its caller frees the buffers of the
\* state it had passed
ReturnFrame(h, stack) ==
    [heap  |-> IF Top(stack).owned THEN LzStateFreeBuffers(h, Top(stack).state) ELSE h,
     stack |-> Pop(stack)]

\* the '0' or the '1' branch of the top frame: copy the state of the frame,
\* advance the copy, recurse; a failed malloc or a failed advance returns
MemBranch(w) ==
    /\ mem_call.pc = "tasks"
    /\ mem_workers[w] # << >>
    /\ Top(mem_workers[w]).k < mem_call.L - mem_call.split_depth
    /\ Top(mem_workers[w]).branch \in {0, 1}
    /\ LET stack == mem_workers[w]
           f     == Top(stack)
           ch    == IF f.branch = 0 THEN 48 ELSE 49
       IN  \E malloc_fails \in BOOLEAN :
           \E c \in {LzStateCopy(mem_heap, f.state)} :
           \E a \in {AdvanceLzStateInPlace(c.heap, c.state, ch)} :
              /\ malloc_fails => ~mem_call.alloc_failed
              /\ mem_call' = [mem_call EXCEPT
                                !.alloc_failed = @ \/ malloc_fails,
                                !.overflow = @ \/ (~malloc_fails /\ a.overflow)]
              /\ IF malloc_fails
                 THEN \E r \in {ReturnFrame(mem_heap, stack)} :
                         /\ mem_heap' = r.heap
                         /\ mem_workers' = [mem_workers EXCEPT ![w] = r.stack]
                 ELSE IF ~a.ok
                 THEN \E r \in {ReturnFrame(LzStateFreeBuffers(a.heap, a.state), stack)} :
                         /\ mem_heap' = r.heap
                         /\ mem_workers' = [mem_workers EXCEPT ![w] = r.stack]
                 ELSE /\ mem_heap' = a.heap
                      /\ mem_workers' =
                            [mem_workers EXCEPT ![w] =
                                Append([stack EXCEPT ![Len(stack)].branch = f.branch + 1],
                                       [k |-> f.k + 1, state |-> a.state, branch |-> 0,
                                        owned |-> TRUE, path |-> Append(f.path, ch),
                                        entry |-> StateContents(a.heap, a.state)])]
    /\ UNCHANGED <<mem_prefix_states, mem_next_task>>
    /\ UNCHANGED <<naiveVars, exhVars, treeVars, batchVars, loopVars>>

\* the base case k == target_depth: the string is counted and the call returns
MemLeaf(w) ==
    /\ mem_call.pc = "tasks"
    /\ mem_workers[w] # << >>
    /\ Top(mem_workers[w]).k = mem_call.L - mem_call.split_depth
    /\ \E r \in {ReturnFrame(mem_heap, mem_workers[w])} :
          /\ mem_heap' = r.heap
          /\ mem_workers' = [mem_workers EXCEPT ![w] = r.stack]
    /\ UNCHANGED <<mem_call, mem_prefix_states, mem_next_task>>
    /\ UNCHANGED <<naiveVars, exhVars, treeVars, batchVars, loopVars>>

\* the call returns after its second recursive call
MemUnwind(w) ==
    /\ mem_call.pc = "tasks"
    /\ mem_workers[w] # << >>
    /\ Top(mem_workers[w]).k < mem_call.L - mem_call.split_depth
    /\ Top(mem_workers[w]).branch = 2
    /\ \E r \in {ReturnFrame(mem_heap, mem_workers[w])} :
          /\ mem_heap' = r.heap
          /\ mem_workers' = [mem_workers EXCEPT ![w] = r.stack]
    /\ UNCHANGED <<mem_call, mem_prefix_states, mem_next_task>>
    /\ UNCHANGED <<naiveVars, exhVars, treeVars, batchVars, loopVars>>

\* after the loop over the tasks: the prefix states are freed and the call
\* returns
MemFinish ==
    /\ mem_call.pc = "tasks"
    /\ mem_next_task = Len(mem_prefix_states)
    /\ \A w \in DOMAIN mem_workers : mem_workers[w] = << >>
    /\ mem_heap' = FreePrefixStates(mem_heap, mem_prefix_states, 1)
    /\ mem_call' = [mem_call EXCEPT !.pc = "returned"]
    /\ UNCHANGED <<mem_prefix_states, mem_workers, mem_next_task>>
    /\ UNCHANGED <<naiveVars, exhVars, treeVars, batchVars, loopVars>>

MemNext ==
    \/ MemEnter
    \/ \E w \in DOMAIN mem_workers : MemTakeTask(w)
    \/ \E w \in DOMAIN mem_workers : MemBranch(w)
    \/ \E w \in DOMAIN mem_workers : MemLeaf(w)
    \/ \E w \in DOMAIN mem_workers : MemUnwind(w)
    \/ MemFinish


(***************************************************************************)
(* online_suffix.c: one add_char_c call, one iteration of the remainder    *)
(* loop at a time.  loop = [pc, ch, ls]: pc is "idle" between calls,       *)
(* "loop" at the test of while (tree->remainder > 0), "crashed" after a    *)
(* read through a NULL active_node and "exited" after exit(EXIT_FAILURE);  *)
(* ls = [t, last, brk] is the tree as the call has it, and                 *)
(* last_new_internal_node and whether the loop was left by break.  The     *)
(* variable tree is the tree as the last finished call left it.            *)
(***************************************************************************)
NoLoop == [pc |-> "none", ch |-> 0, ls |-> [t |-> NoTree, last |-> NULL, brk |-> FALSE]]

LoopIdle == loop = NoLoop

LoopInit == loop = [NoLoop EXCEPT !.pc = "idle"]

\* while (tree->remainder > 0), not left by break
LoopContinues(ls) == ls.t.remainder > 0 /\ ~ls.brk

\* add_char_c(tree, ch) is called: the symbol is appended, remainder++
LoopCall ==
    /\ loop.pc = "idle" /\ process = "running"
    /\ Len(fed) < TreeMaxLen
    /\ \E ch \in TreeSymbols :
          /\ loop' = [pc |-> "loop", ch |-> ch,
                      ls |-> [t |-> [tree EXCEPT !.text = Append(tree.text, ch),
                                                 !.remainder = tree.remainder + 1],
                              last |-> NULL, brk |-> FALSE]]
          /\ fed' = Append(fed, ch)
    /\ UNCHANGED <<tree, lz, query, process, lzHist>>
    /\ UNCHANGED <<naiveVars, exhVars, batchVars, memVars>>

\* one iteration of the remainder loop
LoopIterate ==
    /\ loop.pc = "loop" /\ LoopContinues(loop.ls)
    /\ \E r \in {RemainderIteration(loop.ls, loop.ch)} :
          loop' = [loop EXCEPT !.ls = r,
                               !.pc = IF r.t.crashed THEN "crashed" ELSE "loop"]
    /\ UNCHANGED treeVars
    /\ UNCHANGED <<naiveVars, exhVars, batchVars, memVars>>

\* an iteration that creates a node when malloc returns NULL: perror, then
\* exit(EXIT_FAILURE)
LoopExit ==
    /\ loop.pc = "loop" /\ LoopContinues(loop.ls)
    /\ \E r \in {RemainderIteration(loop.ls, loop.ch)} :
          Len(r.t.nodes) > Len(loop.ls.t.nodes)
    /\ loop' = [loop EXCEPT !.pc = "exited"]
    /\ process' = "exited"
    /\ UNCHANGED <<tree, lz, fed, query, lzHist>>
    /\ UNCHANGED <<naiveVars, exhVars, batchVars, memVars>>

\* the loop has ended: add_char_c returns
LoopReturn ==
    /\ loop.pc = "loop" /\ ~LoopContinues(loop.ls)
    /\ tree' = loop.ls.t
    /\ loop' = [NoLoop EXCEPT !.pc = "idle"]
    /\ UNCHANGED <<lz, fed, query, process, lzHist>>
    /\ UNCHANGED <<naiveVars, exhVars, batchVars, memVars>>

LoopNext == LoopCall \/ LoopIterate \/ LoopExit \/ LoopReturn

(***************************************************************************)
(* Specifications: one per subsystem, the others idle.                     *)
(***************************************************************************)
InitNaive == NaiveInit /\ ExhIdle /\ TreeIdle /\ BatchIdle /\ MemIdle /\ LoopIdle

InitExh == NaiveIdle /\ ExhInit /\ TreeIdle /\ BatchIdle /\ MemIdle /\ LoopIdle

InitTree == NaiveIdle /\ ExhIdle /\ TreeInit /\ BatchIdle /\ MemIdle /\ LoopIdle

InitLZ == NaiveIdle /\ ExhIdle /\ LzInit /\ BatchIdle /\ MemIdle /\ LoopIdle

InitBatch == NaiveIdle /\ ExhIdle /\ TreeIdle /\ BatchInit /\ MemIdle /\ LoopIdle

InitMem == NaiveIdle /\ ExhIdle /\ TreeIdle /\ BatchIdle /\ MemInit /\ LoopIdle

InitLoop == NaiveIdle /\ ExhIdle /\ TreeInit /\ BatchIdle /\ MemIdle /\ LoopInit

SpecNaive == InitNaive /\ [][NaiveNext]_vars

SpecExh == InitExh /\ [][ExhNext]_vars

SpecTree == InitTree /\ [][TreeNext]_vars

SpecLZ == InitLZ /\ [][LzNext]_vars

SpecBatch == InitBatch /\ [][BatchNext]_vars

SpecMem == InitMem /\ [][MemNext]_vars

SpecLoop == InitLoop /\ [][LoopNext]_vars

\* the thread that called add_char_c keeps running: an iteration that can
\* be taken is taken, and a loop that has ended returns
FairSpecLoop == SpecLoop /\ WF_vars(LoopIterate) /\ WF_vars(LoopReturn)


(***************************************************************************)
(* Properties of the exhaustive enumerator (checked under SpecExh).        *)
(***************************************************************************)
\* the L-character string of '0' / '1' whose binary value, first character most
\* significant, is i
BitString(i, L) == [b \in 1..L |-> 48 + ((i \div (2 ^ (L - b))) % 2)]

RECURSIVE SumUpTo(_, _)
\* f[0] + ... + f[n - 1]
SumUpTo(f, n) == IF n = 0 THEN 0 ELSE f[n - 1] + SumUpTo(f, n - 1)

\* the histogram of naive phrase counts over all strings of length L, the last
\* bin holding every count of max_c - 1 or more
NaiveHistogram(L, max_c) ==
    [c \in 0..(max_c - 1) |->
        Cardinality({i \in 0..(2 ^ L - 1) :
                        IF c < max_c - 1
                        THEN Lz76RawCount(BitString(i, L)) = c
                        ELSE Lz76RawCount(BitString(i, L)) >= c})]

GenerateReturned ==
    /\ exh_call.fn = "generate" /\ exh_call.pc = "returned" /\ exh_call.L \in 1..24
    /\ ~exh_call.alloc_failed

DistributionReturned ==
    /\ exh_call.fn = "distribution" /\ exh_call.pc = "returned"
    /\ exh_call.L >= 1 /\ exh_call.max_complexity_to_track >= 1
    /\ ~exh_call.alloc_failed

\* C3: when lz76_exhaustive_generate(L, out) has returned, for L in 1..24, every
\* slot out[i] holds the naive LZ76 phrase count of the L-bit string whose
\* most-significant-first binary value is i, and every one of the 2^L slots was
\* written exactly once.
C3_GenerateMatchesNaive ==
    GenerateReturned =>
        \A i \in 0..(2 ^ exh_call.L - 1) :
            /\ phrase_counts_output[i] = Lz76RawCount(BitString(i, exh_call.L))
            /\ gen.writes[i] = 1

\* a call for L >= 3 has returned, with slots holding different counts
C3_Witness ==
    /\ GenerateReturned /\ exh_call.L >= 3
    /\ phrase_counts_output[0] = 2
    /\ \E i \in DOMAIN phrase_counts_output : phrase_counts_output[i] = 3

\* C4: when lz76_exhaustive_distribution has returned, H[c] for c < Cmax - 1 is
\* the number of L-bit strings whose naive phrase count is c and H[Cmax - 1] is
\* the number whose count is at least Cmax - 1, whatever L, Cmax >= 1 and the
\* number of worker threads.
C4_DistributionMatchesNaive ==
    DistributionReturned =>
        counts_by_complexity = NaiveHistogram(exh_call.L, exh_call.max_complexity_to_track)

\* a parallel call has returned with strings counted both in an exact bin and
\* in the overflow bin
C4_Witness ==
    /\ DistributionReturned
    /\ dist.actual_num_threads >= 2 /\ dist.split_depth >= 1
    /\ exh_call.max_complexity_to_track = 4
    /\ counts_by_complexity[2] > 0
    /\ counts_by_complexity[3] > 0

\* C5: the bins of the returned distribution sum to 2^L, for every split depth
\* and every assignment of the tasks to the threads.
C5_DistributionTotal ==
    DistributionReturned =>
        SumUpTo(counts_by_complexity, exh_call.max_complexity_to_track) = 2 ^ exh_call.L

\* the call has returned after two different threads each explored a sub-tree
C5_Witness ==
    /\ DistributionReturned
    /\ dist.split_depth >= 1
    /\ \E t1, t2 \in Threads(dist.actual_num_threads) :
          /\ t1 # t2
          /\ SumUpTo(dist.private_distribution_arrays[t1],
                     exh_call.max_complexity_to_track) > 0
          /\ SumUpTo(dist.private_distribution_arrays[t2],
                     exh_call.max_complexity_to_track) > 0


\* what a call with one worker computes: split depth 0, the single task
\* explores the whole tree from the initial state into the cleared output
SingleWorkerHistogram(L, max_c) ==
    generate_recursive_for_distribution_task(0, L, lz_state_init(L), ZeroCounts(max_c), max_c,
                                             << >>, << >>)

\* C12: for fixed L and Cmax the histogram lz76_exhaustive_distribution
\* returns is the one a single worker computes, for every requested worker
\* count (powers of two or not, more than 2^L or not, or the default of the
\* runtime) and every assignment of the sub-tree tasks to the workers.
C12_WorkerCountIndependent ==
    DistributionReturned =>
        counts_by_complexity = SingleWorkerHistogram(exh_call.L, exh_call.max_complexity_to_track)

\* three workers were requested, the tree was split into four sub-trees, and
\* at least two workers explored one before the call returned
C12_Witness ==
    /\ DistributionReturned
    /\ exh_call.num_threads_requested = 3
    /\ dist.num_tasks = 4
    /\ \E t1, t2 \in Threads(dist.actual_num_threads) :
          /\ t1 # t2
          /\ SumUpTo(dist.private_distribution_arrays[t1], exh_call.max_complexity_to_track) > 0
          /\ SumUpTo(dist.private_distribution_arrays[t2], exh_call.max_complexity_to_track) > 0

\* more workers than strings: three workers for L = 1
C12_MoreWorkersThanStrings ==
    /\ DistributionReturned
    /\ exh_call.L = 1
    /\ dist.actual_num_threads = 3

\* the output array of the running entry point holds exactly what the caller
\* left in it (see ExhInit)
OutputUntouched ==
    IF exh_call.fn = "generate"
    THEN \A i \in DOMAIN phrase_counts_output : phrase_counts_output[i] = -1
    ELSE \A c \in DOMAIN counts_by_complexity : counts_by_complexity[c] = 5

\* the output array is completely filled with the correct values
OutputComplete ==
    IF exh_call.fn = "generate"
    THEN \A i \in 0..(2 ^ exh_call.L - 1) :
            phrase_counts_output[i] = Lz76RawCount(BitString(i, exh_call.L))
    ELSE counts_by_complexity = NaiveHistogram(exh_call.L, exh_call.max_complexity_to_track)

\* the arguments the entry points reject before doing anything
BoundsViolation ==
    IF exh_call.fn = "generate"
    THEN exh_call.L <= 0 \/ exh_call.L > 24
    ELSE exh_call.L <= 0 \/ exh_call.L > 30 \/ exh_call.max_complexity_to_track <= 0

\* C15: every call of lz76_exhaustive_generate and lz76_exhaustive_distribution
\* either fills the output completely with correct values, or fails (rejected
\* arguments, or an allocation failure anywhere, the recursion included) and
\* then leaves the output array exactly as it was before the call, having
\* allocated nothing when the arguments were rejected; the call is not ended
\* otherwise, and no partially filled or zeroed output is left by a failed call.
C15_AllOrNothing ==
    /\ exh_call.pc # "crashed"
    /\ (exh_call.fn # "none" /\ exh_call.pc = "returned") =>
          IF BoundsViolation \/ exh_call.alloc_failed
          THEN OutputUntouched /\ (BoundsViolation => ~exh_call.malloc_called)
          ELSE OutputComplete

\* what remains true: rejected arguments leave the output untouched with no
\* allocation, and a call without allocation failure fills it completely
AllOrNothingWithoutAllocationFailure ==
    (exh_call.fn # "none" /\ exh_call.pc = "returned" /\ ~exh_call.alloc_failed) =>
        IF BoundsViolation
        THEN OutputUntouched /\ ~exh_call.malloc_called
        ELSE OutputComplete

\* lz76_exhaustive_generate has returned after a failed allocation in its
\* recursion with some slots written and others not
GeneratePartiallyFilled ==
    /\ exh_call.fn = "generate" /\ exh_call.pc = "returned" /\ exh_call.alloc_failed
    /\ \E i, j \in DOMAIN phrase_counts_output :
          phrase_counts_output[i] = -1 /\ phrase_counts_output[j] > 0

\* lz76_exhaustive_distribution has returned after a failed allocation with
\* the caller's histogram zeroed
DistributionZeroed ==
    /\ exh_call.fn = "distribution" /\ exh_call.pc = "returned" /\ exh_call.alloc_failed
    /\ counts_by_complexity = ZeroCounts(exh_call.max_complexity_to_track)

(***************************************************************************)
(* Properties of the naive kernels (checked under SpecNaive).  The parse   *)
(* rules are written here from their statement, over plain sequences.      *)
(***************************************************************************)
\* the kernel has ended and none of its allocations failed
Completed == result.done /\ ~heap.malloc_failed

\* w occurs as a contiguous substring of text
Occurs(w, text) ==
    \E i \in 0..(Len(text) - Len(w)) : SubSeq(text, i + 1, i + Len(w)) = w

AllButLast(w) == SubSeq(w, 1, Len(w) - 1)

RECURSIVE Lz76Rule(_, _)
\* the LZ76 parse of the first k symbols of seq: [parsed, current, count]
Lz76Rule(seq, k) ==
    IF k = 0 THEN [parsed |-> << >>, current |-> << >>, count |-> 0]
    ELSE LET p   == Lz76Rule(seq, k - 1)
             cur == Append(p.current, seq[k])
         IN  IF Occurs(cur, p.parsed \o AllButLast(cur))
             THEN [p EXCEPT !.current = cur]
             ELSE [parsed |-> p.parsed \o cur, current |-> << >>, count |-> p.count + 1]

RuleCount(p) == p.count + (IF p.current # << >> THEN 1 ELSE 0)

\* C6: lz76_complexity keeps current iff it occurs in parsed ++ current without
\* its last symbol, otherwise appends it to parsed, counts it and empties it;
\* the raw count is the completed phrases plus one for a non-empty current
\* ("aababcabcd" parses as a | ab | abc | abcd, dictionary_size 4), and the
\* value returned is that count times log2(n).
C6_Lz76ParseRule ==
    kernel = "lz76" =>
        LET p == Lz76Rule(input_string, st76.pos)
            n == Len(input_string)
        IN  /\ st76.parsed = p.parsed
            /\ st76.current_word = p.current
            /\ st76.dictionary_size = p.count
            /\ (Completed /\ n >= 1) =>
                  /\ st76.pos = n
                  /\ ~result.aborted
                  /\ result.value = RuleCount(p) * Log2Micro(n)
            /\ (Completed /\ input_string = Ex_aababcabcd) =>
                  /\ st76.dictionary_size = 4
                  /\ st76.current_word = << >>
                  /\ result.value = 4 * Log2Micro(10)

\* the run on "aababcabcd" has returned 4 * log2(10)
C6_Witness ==
    /\ kernel = "lz76" /\ Completed
    /\ input_string = Ex_aababcabcd
    /\ st76.parsed = Ex_aababcabcd
    /\ result.value = 13287712

RECURSIVE Lz78Rule(_, _)
\* the LZ78 parse of the first k symbols of seq: [dictionary, current]
Lz78Rule(seq, k) ==
    IF k = 0 THEN [dictionary |-> << >>, current |-> << >>]
    ELSE LET p   == Lz78Rule(seq, k - 1)
             cur == Append(p.current, seq[k])
         IN  IF \E j \in 1..Len(p.dictionary) :
                    /\ Len(p.dictionary[j]) >= Len(cur)
                    /\ SubSeq(p.dictionary[j], 1, Len(cur)) = cur
             THEN [p EXCEPT !.current = cur]
             ELSE [dictionary |-> Append(p.dictionary, cur), current |-> << >>]

\* C7 (as stated): lz78_complexity keeps current iff a stored phrase has current
\* as a prefix, otherwise stores a copy of current and empties it; it returns
\* the number of stored phrases plus one for a non-empty current, and the
\* stored phrases are pairwise distinct.  The code departs from this in two
\* ways: a trailing non-empty current makes the cleanup loop free a pointer
\* that was never initialized, and phrases are stored and measured as C strings.
C7_Lz78ParseRule ==
    kernel = "lz78" =>
        LET p == Lz78Rule(input_string, st78.pos)
        IN  /\ st78.dictionary = p.dictionary
            /\ st78.current_word = p.current
            /\ \A i, j \in 1..Len(st78.dictionary) :
                   i # j => st78.dictionary[i] # st78.dictionary[j]
            /\ Completed =>
                  /\ ~result.aborted
                  /\ result.value =
                        1000000 * (Len(p.dictionary) + (IF p.current # << >> THEN 1 ELSE 0))

\* C8 (as stated): the conditional kernels return K(XY) - K(X) when both X and
\* Y are non-empty, and 0 when Y is empty or X is empty; cond_lz76("ab", "cd")
\* is 8 - 2 = 6.  conditional_lz78_complexity calls lz78_complexity twice and
\* so can abort in its cleanup loop (see C7) instead of returning.
C8_ConditionalDifference ==
    (kernel \in {"cond_lz76", "cond_lz78"} /\ Completed) =>
        LET x  == input_string
            y  == y_string
            xy == input_string \o y_string
        IN  /\ ~result.aborted
            /\ (Len(x) > 0 /\ Len(y) > 0 /\ kernel = "cond_lz76") =>
                  result.value = lz76_complexity(xy) - lz76_complexity(x)
            /\ (Len(x) > 0 /\ Len(y) > 0 /\ kernel = "cond_lz78") =>
                  result.value = lz78_complexity(xy) - lz78_complexity(x)
            /\ (Len(y) = 0 \/ Len(x) = 0) => result.value = 0
            /\ (kernel = "cond_lz76" /\ x = Ex_ab /\ y = Ex_cd) => result.value = 6000000

\* a byte relabeling: a permutation of the small byte values, other bytes fixed
Relabelings == {f \in [NaiveBytes -> NaiveBytes] : \A a, b \in NaiveBytes : f[a] = f[b] => a = b}

Relabel(f, seq) == [i \in 1..Len(seq) |-> IF seq[i] \in NaiveBytes THEN f[seq[i]] ELSE seq[i]]

\* C9 (as stated): the result of lz76_complexity, lz78_complexity and
\* block_entropy on a sequence of explicit length is unchanged under every
\* bijective relabeling of the byte values, including one that maps a symbol to
\* the zero byte.  lz78_complexity and find_or_add_subsequence treat stored
\* bytes as C strings, so a zero byte changes their results.
C9_NullByteNotSpecial ==
    (kernel \in {"lz76", "lz78", "block_entropy"} /\ Completed /\ ~result.aborted) =>
        \A f \in Relabelings :
            result.value =
                CASE kernel = "lz76" -> lz76_complexity(Relabel(f, input_string))
                  [] kernel = "lz78" -> lz78_complexity(Relabel(f, input_string))
                  [] OTHER -> block_entropy(Relabel(f, input_string), dimension)

\* the windows of length d of seq
Windows(seq, d) == {SubSeq(seq, i + 1, i + d) : i \in 0..(Len(seq) - d)}

Occurrences(seq, w) ==
    Cardinality({i \in 0..(Len(seq) - Len(w)) : SubSeq(seq, i + 1, i + Len(w)) = w})

RECURSIVE CountSum(_, _)
CountSum(counts, i) ==
    IF i < Len(counts) THEN counts[i + 1].count + CountSum(counts, i + 1) ELSE 0

\* C10 (as stated): in block_entropy with 1 <= d <= n, after the counting loop
\* the block counter holds exactly one entry per distinct window of length d,
\* each count is the number of positions where the window occurs, and the
\* counts sum to n - d + 1 ("abab", d = 2 gives ab: 2, ba: 1).  A window holding
\* a zero byte is never matched again by find_or_add_subsequence, so it is
\* entered once per occurrence.
C10_BlockCounter ==
    (kernel = "block_entropy" /\ Completed
       /\ 1 <= dimension /\ dimension <= Len(input_string)) =>
        LET counts == stbe.counts
            n      == Len(input_string)
        IN  /\ {counts[k].subsequence : k \in 1..Len(counts)} = Windows(input_string, dimension)
            /\ \A j, k \in 1..Len(counts) :
                   j # k => counts[j].subsequence # counts[k].subsequence
            /\ \A k \in 1..Len(counts) :
                   counts[k].count = Occurrences(input_string, counts[k].subsequence)
            /\ CountSum(counts, 0) = n - dimension + 1
            /\ (input_string = Ex_abab /\ dimension = 2) =>
                   counts = << [subsequence |-> << 97, 98 >>, count |-> 2],
                               [subsequence |-> << 98, 97 >>, count |-> 1] >>


(***************************************************************************)
(* Properties of the suffix tree (SpecTree) and of the LZ parser over it   *)
(* (SpecLZ).                                                               *)
(***************************************************************************)
\* C1 (as stated): after a reset and the symbols of a sequence seq of non-zero
\* bytes, |seq| > 1, fed one by one to add_char_lz_c, get_lz_complexity_c
\* returns the raw phrase count of the naive LZ76 parse of seq.  add_char_c
\* leaves active_edge_char_index at -1 after the first match at the root, so
\* the next call reads text[-1] and takes the new-leaf branch over an existing
\* edge; the dictionary then misses substrings the text contains.
C1_TreeMatchesNaive ==
    (lz # NoLz /\ Len(fed) > 1) =>
        /\ ~tree.crashed
        /\ get_lz_complexity_c(lz) = Lz76RawCount(fed)

\* C2 (as stated): after add_char_c calls that build the text T, find_c returns
\* true for every non-empty contiguous substring of T and false for every
\* non-empty pattern that is not one.  The tree built by add_char_c loses
\* suffixes (see C1), so find_c answers false for substrings of T.
C2_FindIffSubstring ==
    (lz = NoLz /\ query # NoQuery) =>
        (query.found <=> Occurs(query.pattern, fed))


\* the input on which the running kernel returns before its first malloc
TrivialInput ==
    \/ Len(input_string) = 0
    \/ /\ kernel \in {"block_entropy", "symmetric_block_entropy"}
       /\ (dimension = 0 \/ dimension > Len(input_string))

\* C14: every single-sequence kernel (lz76, lz78, block_entropy, their
\* symmetric and conditional variants) that returns on an input with n == 0
\* (block entropy: also d == 0 or d > n) returns exactly 0 and has not called
\* malloc; and a kernel returns -1.0 only after one of its allocations failed,
\* so that with no allocation failure the result is never -1.0.
C14_ZeroOnEmptySentinelOnFailure ==
    (result.done /\ ~result.aborted) =>
        /\ TrivialInput => (result.value = 0 /\ ~heap.malloc_called)
        /\ result.value = -1000000 => heap.malloc_failed
        /\ heap.malloc_failed => result.value = -1000000

\* symmetric_block_entropy has returned 0 for d > n >= 1 without calling malloc
C14_Witness ==
    /\ kernel = "symmetric_block_entropy" /\ result.done
    /\ Len(input_string) >= 1 /\ dimension > Len(input_string)
    /\ result.value = 0 /\ ~heap.malloc_called

\* conditional_lz78_complexity has returned -1.0 after a failed allocation
C14_SentinelReturned ==
    /\ kernel = "cond_lz78" /\ result.done
    /\ result.value = -1000000 /\ heap.malloc_failed

(***************************************************************************)
(* Properties of the batch kernels (checked under SpecBatch).              *)
(***************************************************************************)
\* what the single-sequence kernel of a batch kernel returns on one item
\* when no allocation fails; symmetric LZ76 has no single-sequence function
\* and is the mean of lz76_complexity on the input and on its reversal
SingleSequenceValue(fn, item, dim) ==
    CASE fn = "symmetric_lz76_parallel_original" ->
             MeanOrError(lz76_complexity(item.x), lz76_complexity(Reverse(item.x)))
      [] fn = "symmetric_lz78_parallel"          -> symmetric_lz78_complexity(item.x)
      [] fn = "symmetric_block_entropy_parallel" -> symmetric_block_entropy(item.x, dim)
      [] OTHER -> PlainValue(fn, item.x, item.y, dim)

BatchReturned == batch.pc = "returned"

\* every slot has been stored into exactly once and holds the value of the
\* single-sequence kernel
BatchResultsMatch ==
    \A i \in 1..Len(batch.items) :
        /\ Len(written[i]) = 1
        /\ results[i] = SingleSequenceValue(batch.fn, batch.items[i], batch.dimension)

\* C11: in every batch kernel, for every worker count and every interleaving
\* of the dynamic schedule, and with no allocation failing, the call returns
\* with each results[i] stored exactly once, by one worker, and equal to the
\* single-sequence kernel on inputs[i]: the call is never ended by a crash,
\* no slot is ever stored into twice, and at the return every slot matches.
C11_BatchMatchesKernel ==
    failed = {} =>
        /\ batch.pc # "crashed"
        /\ \A i \in 1..Len(batch.items) : Len(written[i]) <= 1
        /\ BatchReturned => BatchResultsMatch

\* what remains true of the batch kernels: whenever a call returns and no
\* allocation failed, every slot was stored exactly once with the kernel value
BatchMatchesKernelAtReturn ==
    /\ \A i \in 1..Len(batch.items) : Len(written[i]) <= 1
    /\ (BatchReturned /\ failed = {}) => BatchResultsMatch

\* the crash C11 excludes, without any allocation failure: an empty input
\* handed to a worker of a symmetric kernel that has no buffer yet
BatchCrashedOnEmptyInput ==
    /\ batch.pc = "crashed" /\ failed = {}
    /\ batch.fn \in SymmetricKernels
    /\ \E t \in DOMAIN workers :
          /\ workers[t].pc = "item"
          /\ batch.items[workers[t].i + 1].x = << >>
          /\ workers[t].reversed = << >>

\* the call was ended by a crash in the loop body of an item during which an
\* allocation had failed
BatchCrashedByFailure ==
    /\ batch.pc = "crashed"
    /\ \E t \in DOMAIN workers : workers[t].pc = "item" /\ workers[t].i \in failed

\* C13: in every batch kernel, when an allocation fails while item i is
\* processed (inside the per-sequence kernel, or growing the worker's reverse
\* buffer), the batch is not ended by it, and at the return results[i] is -1.0
\* while every other item holds its kernel value.
C13_FailedItemIsSentinel ==
    /\ ~BatchCrashedByFailure
    /\ BatchReturned =>
           \A i \in 1..Len(batch.items) :
              IF (i - 1) \in failed
              THEN results[i] = -1000000
              ELSE results[i] = SingleSequenceValue(batch.fn, batch.items[i], batch.dimension)

\* the same statement for the kernels other than symmetric_lz76_parallel_original
FailedItemIsSentinelElsewhere ==
    batch.fn # "symmetric_lz76_parallel_original" => C13_FailedItemIsSentinel

\* symmetric_lz76_parallel_original has returned with a value other than -1.0
\* in the slot of an item whose realloc failed
BatchReturnedValueAfterFailedRealloc ==
    /\ BatchReturned
    /\ batch.fn = "symmetric_lz76_parallel_original"
    /\ \E i \in 1..Len(batch.items) : (i - 1) \in failed /\ results[i] > 0
(***************************************************************************)
(* Allocation failure in the suffix tree and the LZ parser (SpecLZ).       *)
(***************************************************************************)
\* C16: an allocation failure inside the suffix tree or the LZ parser over it
\* is returned to the caller as an error: the call returns and the program
\* keeps running (no call ends the process)
C16_AllocationFailureReturns == process = "running"

(***************************************************************************)
(* Reset of the LZ parser (SpecLZ).                                        *)
(***************************************************************************)
\* a freshly created LZSuffixTreeCState, whose tree reads garbage_byte outside
\* its text, fed v: [lz, tree, completed]
FreshFed(garbage_byte, v) ==
    FeedString(create_lz_suffix_tree_c(create_suffix_tree_c(garbage_byte)),
               create_suffix_tree_c(garbage_byte), v, 0, << >>)

FreshComplexity(garbage_byte, v) == get_lz_complexity_c(FreshFed(garbage_byte, v).lz)

\* the parser was fed a non-empty u, reset, and fed a non-empty v since
AfterReset == process = "running" /\ fed_before_reset # << >> /\ fed # << >>

\* results of the last process_lz_batch_c call equal, slot by slot, the
\* complexity a fresh state gives for that string alone
LzBatchResultsFresh ==
    /\ Len(lz_batch.results) = Len(lz_batch.strings)
    /\ \A i \in 1..Len(lz_batch.strings) :
          lz_batch.results[i] =
              IF lz_batch.strings[i].is_null THEN 0
              ELSE FreshComplexity(lz_batch.garbage[i], lz_batch.strings[i].bytes)

\* C17: a state fed u, reset, and fed v gives the same per-symbol
\* phrase_completed values and the same complexity as a fresh state fed v,
\* and results[i] of process_lz_batch_c depends on strings[i] only
C17_ResetEqualsFresh ==
    /\ AfterReset =>
          LET fresh == FreshFed(tree.garbage, fed)
          IN  /\ completed = fresh.completed
              /\ get_lz_complexity_c(lz) = get_lz_complexity_c(fresh.lz)
    /\ lz_batch.called => LzBatchResultsFresh

\* process_lz_batch_c ran two non-empty strings with different results on a
\* state whose word buffer still holds bytes of the first one
C17_Witness ==
    /\ AfterReset
    /\ lz_batch.called
    /\ Len(lz_batch.strings) = 2
    /\ lz_batch.results[1] # lz_batch.results[2]
    /\ lz_batch.results[2] >= 2
    /\ Len(completed) = Len(fed)
    /\ lz # FreshFed(tree.garbage, fed).lz

(***************************************************************************)
(* Symmetric measures under reversal (SpecNaive).                          *)
(***************************************************************************)
\* symmetric_lz76_parallel_original called with seq as its only item, no
\* allocation failing: [killed, value], killed when the body writes the
\* terminator through the NULL buffer and stores nothing
SymmetricLz76(seq) ==
    LET g == GrowReversed("symmetric_lz76_parallel_original", BatchIdleWorker,
                          Len(seq), FALSE)
    IN  IF WritesThroughNull(g.w, Len(seq))
        THEN [killed |-> TRUE, value |-> 0]
        ELSE [killed |-> FALSE,
              value  |-> MeanOrError(
                            lz76_complexity(seq),
                            lz76_complexity(Prefix(WriteReversed(g.w.reversed, seq),
                                                   Len(seq))))]

\* a symmetric kernel was called and no allocation failed
SymmetricCalled ==
    /\ kernel \in {"symmetric_lz78", "symmetric_block_entropy"}
    /\ Completed

\* the value the same kernel returns on the reversal of the input
ValueOnReversal ==
    IF kernel = "symmetric_lz78"
    THEN symmetric_lz78_complexity(Reverse(input_string))
    ELSE symmetric_block_entropy(Reverse(input_string), dimension)

\* the reverse buffer is the exact reversal: reversed[j] = seq[n-1-j]
ExactReversal ==
    LET n   == Len(input_string)
        rev == Reverse(input_string)
    IN  /\ Len(rev) = n
        /\ \A j \in 0..(n - 1) : rev[j + 1] = input_string[(n - 1 - j) + 1]

\* C18: every symmetric measure gives the same value on a sequence and on
\* its reversal, the reversal being exact (reversed[j] = seq[n-1-j]): a call
\* on seq returns, and returns what a call on reverse(seq) returns
C18_SymmetricUnderReversal ==
    /\ ExactReversal
    /\ SymmetricCalled => ~result.aborted /\ result.value = ValueOnReversal
    /\ SymmetricCalled =>
          SymmetricLz76(input_string) = SymmetricLz76(Reverse(input_string))

\* the same for the calls that return: whenever the call on seq returns a
\* value, it is the value of the kernel on reverse(seq)
SymmetricValuesAgree ==
    /\ ExactReversal
    /\ SymmetricCalled /\ ~result.aborted => result.value = ValueOnReversal
    /\ SymmetricCalled =>
          SymmetricLz76(input_string) = SymmetricLz76(Reverse(input_string))

\* a symmetric kernel returned on a sequence that differs from its reversal
\* and on which the kernels give different values in the two directions
SymmetricReturnedAsymmetricInput ==
    /\ SymmetricCalled /\ ~result.aborted
    /\ Reverse(input_string) # input_string
    /\ lz76_complexity(input_string) # lz76_complexity(Reverse(input_string))
    /\ \/ /\ kernel = "symmetric_lz78"
          /\ lz78_complexity(input_string) # lz78_complexity(Reverse(input_string))
       \/ /\ kernel = "symmetric_block_entropy"
          /\ block_entropy(input_string, dimension)
                 # block_entropy(Reverse(input_string), dimension)

\* symmetric_lz78_complexity was ended by abort() on a sequence that differs
\* from its reversal
SymmetricLz78Aborted ==
    /\ kernel = "symmetric_lz78" /\ result.aborted
    /\ Reverse(input_string) # input_string

(***************************************************************************)
(* lz76_complexity: sign and monotonicity of the phrase count (SpecNaive). *)
(***************************************************************************)
\* the first k symbols of the input
InputPrefix(k) == SubSeq(input_string, 1, k)

\* C19: lz76_complexity returns a value >= 0, and the raw phrase count
\* (completed phrases plus one for a non-empty current word) of the prefix of
\* length k is >= that of the prefix of length k-1, for every k; the running
\* loop holds the count of the prefix it has read
C19_NonNegativeAndMonotone ==
    kernel = "lz76" =>
       /\ Completed => result.value >= 0
       /\ Lz76FinalCount(st76) = Lz76RawCount(InputPrefix(st76.pos))
       /\ Lz76FinalCount(st76) >= 0
       /\ \A k \in 1..Len(input_string) :
             Lz76RawCount(InputPrefix(k)) >= Lz76RawCount(InputPrefix(k - 1))

\* lz76_complexity returned a positive value on an input along which the
\* count grows at one symbol and stays at another, and ends inside a word
C19_Witness ==
    /\ kernel = "lz76" /\ Completed /\ result.value > 0
    /\ Len(st76.current_word) > 0
    /\ \E k \in 1..Len(input_string) :
          Lz76RawCount(InputPrefix(k)) > Lz76RawCount(InputPrefix(k - 1))
    /\ \E k \in 1..Len(input_string) :
          Lz76RawCount(InputPrefix(k)) = Lz76RawCount(InputPrefix(k - 1))

(***************************************************************************)
(* lz76_exhaustive_distribution: the bin of count 0 (SpecExh).             *)
(***************************************************************************)
\* C20: after a successful lz76_exhaustive_distribution(L, H, Cmax, workers)
\* with L >= 1, H[0] = 0: every non-empty sequence has at least one phrase
C20_ZeroBinEmpty ==
    DistributionReturned => counts_by_complexity[0] = 0

\* C20 for histograms of at least two bins: H[0] = 0 whenever L >= 1 and
\* Cmax >= 2 (with Cmax = 1 the only bin, H[0], is the overflow bin)
C20_ZeroBinEmptyFromTwoBins ==
    DistributionReturned /\ exh_call.max_complexity_to_track >= 2 =>
        counts_by_complexity[0] = 0

\* a parallel call with two bins has returned for L >= 3: every string is in
\* the overflow bin H[1], next to the empty H[0]
C20_Witness ==
    /\ DistributionReturned
    /\ exh_call.max_complexity_to_track = 2 /\ exh_call.L >= 3
    /\ dist.actual_num_threads >= 2
    /\ counts_by_complexity[0] = 0
    /\ counts_by_complexity[1] = 2 ^ exh_call.L

\* a call with one bin has returned: all 2^L strings are counted in H[0]
SingleBinHoldsAll ==
    /\ DistributionReturned
    /\ exh_call.max_complexity_to_track = 1
    /\ counts_by_complexity[0] = 2 ^ exh_call.L

(***************************************************************************)
(* The exhaustive enumerator on the strings of length 3 (SpecExh).         *)
(***************************************************************************)
\* lz76_exhaustive_generate(3, out) has returned
GenerateThreeReturned == GenerateReturned /\ exh_call.L = 3

\* C21: lz76_exhaustive_generate(3, out) writes the raw phrase counts
\* 2, 3, 3, 3, 3, 3, 3, 2 for 000, 001, ..., 111 in index order
C21_GenerateThreeAsStated ==
    GenerateThreeReturned =>
        phrase_counts_output = [i \in 0..7 |-> <<2, 3, 3, 3, 3, 3, 3, 2>>[i + 1]]

\* C21 with the counts of the parse: 0|00, 0|01, 0|1|0, 0|1|1, 1|0|0, 1|0|1,
\* 1|10, 1|11, that is 2, 2, 3, 3, 3, 3, 2, 2
C21_GenerateThreeCounts ==
    GenerateThreeReturned =>
        phrase_counts_output = [i \in 0..7 |-> <<2, 2, 3, 3, 3, 3, 2, 2>>[i + 1]]

\* the call for L = 3 has returned with each of the 8 slots written once
C21_Witness ==
    /\ GenerateThreeReturned
    /\ \A i \in 0..7 : gen.writes[i] = 1 /\ phrase_counts_output[i] >= 2

\* lz76_exhaustive_distribution(3, H, 5, 4) has returned
DistributionExampleReturned ==
    /\ DistributionReturned
    /\ exh_call.L = 3 /\ exh_call.max_complexity_to_track = 5
    /\ exh_call.num_threads_requested = 4

\* C22: lz76_exhaustive_distribution(3, H, Cmax = 5, workers = 4) returns
\* H = [0, 0, 2, 6, 0]
C22_DistributionExampleAsStated ==
    DistributionExampleReturned =>
        counts_by_complexity = [c \in 0..4 |-> <<0, 0, 2, 6, 0>>[c + 1]]

\* C22 with the histogram of the counts 2, 2, 3, 3, 3, 3, 2, 2:
\* H = [0, 0, 4, 4, 0]
C22_DistributionExampleCounts ==
    DistributionExampleReturned =>
        counts_by_complexity = [c \in 0..4 |-> <<0, 0, 4, 4, 0>>[c + 1]]

\* the example call has returned after a team of 4 threads ran the 4 tasks of
\* split depth 2, at least two of the threads having run one
C22_Witness ==
    /\ DistributionExampleReturned
    /\ dist.actual_num_threads = 4 /\ dist.split_depth = 2 /\ dist.num_tasks = 4
    /\ \A i \in 0..3 : dist.task_runs[i] = 1
    /\ \E t, u \in Threads(4) :
          /\ t # u
          /\ SumUpTo(dist.private_distribution_arrays[t], 5) > 0
          /\ SumUpTo(dist.private_distribution_arrays[u], 5) > 0

(***************************************************************************)
(* lz78_complexity on "abababab" (SpecNaive).                              *)
(***************************************************************************)
\* the call lz78_complexity("abababab", 8) has ended and none of its
\* allocations failed
Lz78ExampleCalled ==
    /\ kernel = "lz78" /\ input_string = Ex_abababab
    /\ Completed

\* C23: lz78_complexity("abababab", 8) parses the input into a | ab | abab,
\* is left with the word a, and returns 3 + 1 = 4
C23_Lz78ExampleAsStated ==
    Lz78ExampleCalled =>
        /\ ~result.aborted
        /\ st78.dictionary = << <<97>>, <<97, 98>>, <<97, 98, 97, 98>> >>
        /\ st78.current_word = <<97>>
        /\ result.value = 4 * 1000000

\* what holds: the loop parses the input into a | b | ab | aba and is left
\* with the word b; a call that returns a value returns 4 + 1 = 5
Lz78ExampleParseIfReturned ==
    Lz78ExampleCalled =>
        /\ st78.dictionary = << <<97>>, <<98>>, <<97, 98>>, <<97, 98, 97>> >>
        /\ st78.current_word = <<98>>
        /\ ~result.aborted => result.value = 5 * 1000000

\* the call on "abababab" has read all 8 symbols and was ended inside its
\* cleanup loop by free() of the slot behind the four phrases: no value
Lz78ExampleAborted ==
    /\ Lz78ExampleCalled
    /\ st78.pos = 8
    /\ Len(st78.dictionary) = 4 /\ Len(st78.current_word) > 0
    /\ result.aborted

(***************************************************************************)
(* lz76_exhaustive_distribution: the split depth (SpecExh).                *)
(***************************************************************************)
\* the least d with 2^d >= n, for n >= 1
CeilLog2(n) == CHOOSE d \in 0..n : 2 ^ d >= n /\ \A e \in 0..(d - 1) : 2 ^ e < n

\* ceil(log2(workers)) clamped to [0, L]; 0 for workers <= 1
ClampedSplit(n_workers, L) ==
    IF n_workers <= 1 THEN 0
    ELSE IF CeilLog2(n_workers) > L THEN L ELSE CeilLog2(n_workers)

\* the call has computed its prefix states
DistEntered == exh_call.fn = "distribution" /\ dist.num_tasks > 0

\* 2^d prefix states were computed and, at the return of a call in which no
\* allocation failed, each of the 2^d tasks was run once
TasksOfSplitDepth ==
    /\ dist.num_tasks = 2 ^ dist.split_depth
    /\ DOMAIN dist.prefix_states = 0..(2 ^ dist.split_depth - 1)
    /\ exh_call.pc = "returned" /\ ~exh_call.alloc_failed =>
          \A i \in 0..(2 ^ dist.split_depth - 1) : dist.task_runs[i] = 1

\* C24: the split depth is 0 (one task, serial run) when the requested worker
\* count is <= 1, and ceil(log2(workers)) clamped to [0, L] otherwise; 2^d
\* prefix states are computed and 2^d tasks are dispatched
C24_SplitDepthOfRequested ==
    DistEntered =>
        /\ dist.split_depth = ClampedSplit(exh_call.num_threads_requested, exh_call.L)
        /\ TasksOfSplitDepth

\* the same in terms of the thread count the call works with (the requested
\* count, or omp_get_max_threads() when the requested count is <= 0)
SplitDepthOfActual ==
    DistEntered =>
        /\ dist.split_depth = ClampedSplit(dist.actual_num_threads, exh_call.L)
        /\ TasksOfSplitDepth

\* a call with requested count 0 has split the work into more than one task
DefaultCountSplits ==
    /\ DistEntered
    /\ exh_call.num_threads_requested = 0
    /\ dist.split_depth > 0

\* a call has returned after running the tasks of a split depth that was
\* clamped to L
SplitClampedReturned ==
    /\ DistEntered /\ exh_call.pc = "returned" /\ ~exh_call.alloc_failed
    /\ dist.split_depth = exh_call.L
    /\ CeilLog2(dist.actual_num_threads) > exh_call.L

(***************************************************************************)
(* add_char_lz_c: the one-symbol lag and the end of a phrase (SpecLZ).     *)
(***************************************************************************)
\* the parser is alive
LzRunning == lz # NoLz /\ process = "running" /\ ~tree.crashed

\* this step is one add_char_lz_c call (it appends one symbol to fed and is
\* not the end of a process_lz_batch_c call)
AddCharLzStep ==
    /\ LzRunning /\ process' = "running"
    /\ Len(fed') = Len(fed) + 1 /\ SubSeq(fed', 1, Len(fed)) = fed
    /\ ~lz_batch'.called

\* the symbol the step passes to add_char_lz_c
StepSymbol == fed'[Len(fed')]

\* the LZ fields as add_char_lz_c has them when it tries the extension
LzBeforeExtension ==
    [WriteWordBuffer(lz, StepSymbol) EXCEPT
        !.last_char_processed_by_lz = StepSymbol,
        !.has_last_char_processed_by_lz = TRUE]

\* after symbols s1..sk the tree's text is s1..s(k-1) and sk is remembered
LagInState ==
    LzRunning =>
        IF fed = << >>
        THEN tree.text = << >> /\ ~lz.has_last_char_processed_by_lz
        ELSE /\ tree.text = SubSeq(fed, 1, Len(fed) - 1)
             /\ Len(tree.text) = Len(fed) - 1
             /\ lz.has_last_char_processed_by_lz
             /\ lz.last_char_processed_by_lz = fed[Len(fed)]

\* the call appends the previous symbol to the tree, and what it returns is
\* the outcome of the extension by the current symbol in that tree
LagInStep ==
    AddCharLzStep =>
        /\ tree'.text = fed
        /\ fed # << >> => tree' = add_char_c(tree, fed[Len(fed)])
        /\ fed = << >> => tree' = tree
        /\ completed'[Len(completed')]
              = ~is_match_in_base_tree_c(LzBeforeExtension, tree', StepSymbol).match

\* C25: one-symbol lag: after add_char_lz_c calls with s1..sk the suffix
\* tree's text is exactly s1..s(k-1) and sk is the remembered last symbol;
\* each call appends the previous symbol before it tries the extension by
\* the current one, which is evaluated in the tree of s1..s(k-1)
C25_OneSymbolLag == [](LagInState) /\ [][LagInStep]_vars

\* four or more symbols were fed, some of them ending a phrase and some not
C25_Witness ==
    /\ LzRunning /\ Len(fed) >= 4 /\ Len(completed) = Len(fed)
    /\ Len(tree.text) = Len(fed) - 1
    /\ \E i, j \in 1..Len(completed) : completed[i] /\ ~completed[j]

\* what the add_char_lz_c call of this step returned
StepReturned == completed'[Len(completed')]

\* the effects of one add_char_lz_c call on the parser's fields
PhraseEndInStep ==
    (AddCharLzStep /\ ~tree'.crashed) =>
        /\ Len(completed') = Len(completed) + 1
        /\ StepReturned
             = ~is_match_in_base_tree_c(LzBeforeExtension, tree', StepSymbol).match
        /\ IF StepReturned
           THEN /\ lz'.dictionary_size = lz.dictionary_size + 1
                /\ lz'.lz_active_node = tree'.root
                /\ lz'.lz_active_length = 0
                /\ lz'.current_word_len = 0
           ELSE /\ lz'.dictionary_size = lz.dictionary_size
                /\ lz'.current_word_len = lz.current_word_len + 1

\* C26: when the extension of the current phrase by the symbol fails,
\* add_char_lz_c adds exactly 1 to dictionary_size, resets the LZ active
\* point to (root, length 0), sets current_word_len to 0 and returns true;
\* when it succeeds dictionary_size is unchanged, current_word_len grows by
\* exactly 1 and the call returns false
C26_PhraseTermination == [][PhraseEndInStep]_vars

\* a phrase of two or more symbols has just ended, after an earlier phrase
C26_Witness ==
    /\ LzRunning /\ Len(completed) = Len(fed) /\ Len(completed) >= 4
    /\ completed[Len(completed)]
    /\ ~completed[Len(completed) - 1]
    /\ lz.current_word_len = 0 /\ lz.lz_active_length = 0
    /\ lz.lz_active_node = tree.root
    /\ lz.dictionary_size >= 2

(***************************************************************************)
(* add_char_c: suffix links and the active point (SpecTree).               *)
(***************************************************************************)
\* a plain suffix tree is being built
TreeBuilt == tree # NoTree /\ lz = NoLz

\* the nodes other than the root that have outgoing edges
InternalNodes(t) ==
    {n \in 1..Len(t.nodes) : n # t.root /\ t.nodes[n].children_list # << >>}

\* every internal non-root node has a suffix link
InternalNodesLinked(t) ==
    \A n \in InternalNodes(t) : t.nodes[n].suffix_link # NULL

\* C27: after every add_char_c call every internal non-root node has a
\* non-null suffix link, and a suffix link followed from a non-root active
\* node always gives a node: active_node is never null and the call never
\* dereferences a null node
C27_SuffixLinksNeverNull ==
    TreeBuilt =>
        /\ InternalNodesLinked(tree)
        /\ tree.active_node # NULL
        /\ ~tree.crashed

\* add_char_c dereferenced a null active_node
NullActiveNodeDereferenced == TreeBuilt /\ tree.crashed

\* as far as the calls that return go: internal nodes are linked and the
\* active node is a node
LinkedWhileReturning ==
    (TreeBuilt /\ ~tree.crashed) =>
        InternalNodesLinked(tree) /\ tree.active_node # NULL

\* a call returned with two or more linked internal nodes in the tree
SeveralInternalNodesLinked ==
    /\ TreeBuilt /\ ~tree.crashed
    /\ Cardinality(InternalNodes(tree)) >= 2
    /\ InternalNodesLinked(tree)

\* the label of an edge: text[start .. end], a leaf edge ending at the
\* current end of the text
EdgeLabel(t, e) ==
    LET real_end == IF e.end = INF_END THEN Len(t.text) - 1 ELSE e.end
    IN  [k \in 1..api_edge_length_c(e, Len(t.text) - 1) |-> TextAt(t, e.start + k - 1)]

\* the (parent, entry) pairs whose edge leads to node n
ParentEntries(t, n) ==
    {pe \in (1..Len(t.nodes)) \X (1..(2 * Len(t.nodes))) :
        /\ pe[2] <= Len(t.nodes[pe[1]].children_list)
        /\ t.nodes[pe[1]].children_list[pe[2]].edge.dest = n}

RECURSIVE PathOf(_, _, _)
\* [ok, label]: whether node n hangs below the root, and the concatenation of
\* the edge labels from the root to n
PathOf(t, n, fuel) ==
    IF n = t.root THEN [ok |-> TRUE, label |-> << >>]
    ELSE IF fuel = 0 \/ ParentEntries(t, n) = {} THEN [ok |-> FALSE, label |-> << >>]
    ELSE LET pe == CHOOSE x \in ParentEntries(t, n) : TRUE
             up == PathOf(t, pe[1], fuel - 1)
         IN  [ok |-> up.ok,
              label |-> up.label
                        \o EdgeLabel(t, t.nodes[pe[1]].children_list[pe[2]].edge)]

PathLabel(t, n) == PathOf(t, n, Len(t.nodes)).label

InTree(t, n) == PathOf(t, n, Len(t.nodes)).ok

\* the nodes of the tree other than the root that have a suffix link
LinkedNodes(t) ==
    {n \in 1..Len(t.nodes) :
        n # t.root /\ t.nodes[n].suffix_link # NULL /\ InTree(t, n)}

\* the suffix link of n leads to the node whose path-label is that of n
\* without its first symbol
LinkDropsFirstSymbol(t, n) ==
    /\ PathLabel(t, n) # << >>
    /\ InTree(t, t.nodes[n].suffix_link)
    /\ PathLabel(t, t.nodes[n].suffix_link) = Tail(PathLabel(t, n))

\* C28: after every add_char_c call, every node with a suffix link and
\* path-label x.alpha has a suffix link to the node with path-label alpha,
\* and the root's suffix link is the root
C28_SuffixLinkLabels ==
    (TreeBuilt /\ ~tree.crashed) =>
        /\ tree.nodes[tree.root].suffix_link = tree.root
        /\ \A n \in LinkedNodes(tree) : LinkDropsFirstSymbol(tree, n)

\* the root's suffix link is the root
RootLinkIsRoot ==
    (TreeBuilt /\ ~tree.crashed) => tree.nodes[tree.root].suffix_link = tree.root

\* a linked node whose suffix link leads to a node with another label
SuffixLinkMislabelled ==
    /\ TreeBuilt /\ ~tree.crashed
    /\ \E n \in LinkedNodes(tree) : ~LinkDropsFirstSymbol(tree, n)

\* a linked node whose suffix link leads where the statement says
SuffixLinkWellLabelled ==
    /\ TreeBuilt /\ ~tree.crashed
    /\ \E n \in LinkedNodes(tree) :
          Len(PathLabel(tree, n)) >= 2 /\ LinkDropsFirstSymbol(tree, n)

\* this step is one add_char_c call on the plain tree
AddCharStep ==
    /\ TreeBuilt /\ ~tree.crashed /\ process = "running"
    /\ Len(fed') = Len(fed) + 1

\* the loop state with which add_char_c enters the remainder loop in this step
LoopEntry ==
    [t |-> [tree EXCEPT !.text = Append(tree.text, fed'[Len(fed')]),
                        !.remainder = tree.remainder + 1],
     last |-> NULL, brk |-> FALSE]

RECURSIVE LoopIterations(_, _)
\* the tree as it is at the start of each iteration of the remainder loop
LoopIterations(ls, ch) ==
    IF ls.t.remainder > 0 /\ ~ls.brk /\ ~ls.t.crashed
    THEN << ls.t >> \o LoopIterations(RemainderIteration(ls, ch), ch)
    ELSE << >>

\* the indices at which one iteration reads tree->text (lines 259, 291, 310
\* and 320)
TextReads(t, ch) ==
    LET cge == Len(t.text) - 1
        char_to_test == IF t.active_length = 0 THEN ch
                        ELSE TextAt(t, t.active_edge_char_index)
        first == IF t.active_length = 0 THEN {} ELSE {t.active_edge_char_index}
    IN  IF ~HasChildEdge(t.nodes, t.active_node, char_to_test) THEN first
        ELSE LET e == ChildEdge(t.nodes, t.active_node, char_to_test)
             IN  IF t.active_length >= api_edge_length_c(e, cge) THEN first
                 ELSE IF TextAt(t, e.start + t.active_length) = ch
                 THEN first \cup {e.start + t.active_length}
                 ELSE first \cup {e.start + t.active_length, e.start}

\* with active_length > 0 the active edge index is inside the text and
\* active_node has the edge it names
ActiveEdgeMeaningful(t) ==
    t.active_length > 0 =>
        /\ 0 <= t.active_edge_char_index
        /\ t.active_edge_char_index < Len(t.text)
        /\ HasChildEdge(t.nodes, t.active_node, TextAt(t, t.active_edge_char_index))

ActiveEdgeMeaningfulAfterCall ==
    (TreeBuilt /\ ~tree.crashed) => ActiveEdgeMeaningful(tree)

ActiveEdgeMeaningfulInLoop ==
    AddCharStep =>
        LET its == LoopIterations(LoopEntry, fed'[Len(fed')])
        IN  \A i \in 1..Len(its) :
               /\ ActiveEdgeMeaningful(its[i])
               /\ \A index \in TextReads(its[i], fed'[Len(fed')]) :
                     0 <= index /\ index < Len(fed')

\* C29: at every iteration of the remainder loop of add_char_c and after
\* every call, active_length > 0 implies 0 <= active_edge_char_index <
\* text_len and a child edge of active_node keyed by
\* text[active_edge_char_index]; add_char_c reads text only inside
\* [0, text_len)
C29_ActiveEdgeIndexMeaningful ==
    [](ActiveEdgeMeaningfulAfterCall) /\ [][ActiveEdgeMeaningfulInLoop]_vars

\* a call returned with active_length > 0 and active_edge_char_index = -1
ActiveEdgeIndexLeftUnset ==
    /\ TreeBuilt /\ ~tree.crashed
    /\ tree.active_length > 0 /\ tree.active_edge_char_index = -1

\* add_char_c reads text only below text_len: the reads outside the text are
\* at negative indices
ReadsBelowTextEnd ==
    [][AddCharStep =>
         LET its == LoopIterations(LoopEntry, fed'[Len(fed')])
         IN  \A i \in 1..Len(its) :
                \A index \in TextReads(its[i], fed'[Len(fed')]) :
                   index < Len(fed')]_vars

\* the tree at the start of each iteration of this step's remainder loop,
\* followed by the tree the call leaves
LoopTrace == LoopIterations(LoopEntry, fed'[Len(fed')]) \o << tree' >>

\* iteration i of this step decrements remainder with active_node == root
\* and active_length > 0 (the first branch of lines 342-356)
ShortensAtRoot(i) ==
    /\ LoopTrace[i + 1].remainder = LoopTrace[i].remainder - 1
    /\ LoopTrace[i].active_node = LoopTrace[i].root
    /\ LoopTrace[i].active_length > 0

\* C30: in add_char_c, after remainder is decremented with active_node ==
\* root and active_length > 0, active_length is decremented and
\* active_edge_char_index is text_len - remainder, the start index of the
\* next suffix to insert
C30_ActiveEdgeAtNextSuffix ==
    [][AddCharStep =>
         \A i \in 1..(Len(LoopTrace) - 1) :
            ShortensAtRoot(i) =>
               /\ LoopTrace[i + 1].active_length = LoopTrace[i].active_length - 1
               /\ LoopTrace[i + 1].active_edge_char_index
                     = Len(LoopTrace[i].text) - LoopTrace[i + 1].remainder]_vars

\* what line 356 stores: text_len - remainder - active_length, with the
\* decremented remainder and active_length
ActiveEdgeAsComputed ==
    [][AddCharStep =>
         \A i \in 1..(Len(LoopTrace) - 1) :
            ShortensAtRoot(i) =>
               /\ LoopTrace[i + 1].active_length = LoopTrace[i].active_length - 1
               /\ LoopTrace[i + 1].active_edge_char_index
                     = Len(LoopTrace[i].text) - LoopTrace[i + 1].remainder
                          - LoopTrace[i + 1].active_length]_vars

\* a call has just returned from an iteration that shortened the active
\* length at the root to a positive value, and the index left is not the
\* start of the next suffix to insert
ActiveEdgeNotAtNextSuffix ==
    /\ TreeBuilt /\ ~tree.crashed
    /\ tree.active_node = tree.root /\ tree.active_length > 0
    /\ tree.active_edge_char_index >= 0
    /\ tree.active_edge_char_index # Len(tree.text) - tree.remainder
    /\ tree.active_edge_char_index
          = Len(tree.text) - tree.remainder - tree.active_length

(***************************************************************************)
(* is_match_in_base_tree_c: the LZ active point at the extension step      *)
(* (SpecLZ).                                                               *)
(***************************************************************************)
\* the LZ active point names an edge of lz_active_node
LzActiveEdgeExists(l, t) ==
    HasChildEdge(t.nodes, l.lz_active_node, l.lz_active_edge_first_char)

\* the current length of the edge the LZ active point names
LzActiveEdgeLength(l, t) ==
    api_edge_length_c(ChildEdge(t.nodes, l.lz_active_node, l.lz_active_edge_first_char),
                      Len(t.text) - 1)

\* the LZ active point is consistent with the tree
LzActivePointConsistent(l, t) ==
    l.lz_active_length > 0 =>
        /\ LzActiveEdgeExists(l, t)
        /\ l.lz_active_length <= LzActiveEdgeLength(l, t)

\* C31: at entry to the extension step of every add_char_lz_c call, if
\* lz_active_length > 0 then lz_active_node has a child edge keyed by
\* lz_active_edge_first_char and lz_active_length is at most that edge's
\* current length: the "inconsistent LZ active point" branch is never taken
\* and the descend branch is taken only with lz_active_length = edge length
C31_LzActivePointConsistent ==
    [][(AddCharLzStep /\ ~tree'.crashed) =>
          LzActivePointConsistent(LzBeforeExtension, tree')]_vars

\* the "inconsistent LZ active point" branch is never taken
InconsistentBranchNeverTaken ==
    [][(AddCharLzStep /\ ~tree'.crashed /\ LzBeforeExtension.lz_active_length > 0) =>
          LzActiveEdgeExists(LzBeforeExtension, tree')]_vars

\* the next add_char_lz_c call will enter the extension step with more
\* symbols matched than the edge it is on is long
LzActiveLengthOverrunsEdge ==
    /\ LzRunning /\ lz.has_last_char_processed_by_lz
    /\ lz.lz_active_length > 0
    /\ \E t1 \in {add_char_c(tree, lz.last_char_processed_by_lz)} :
          /\ ~t1.crashed
          /\ LzActiveEdgeExists(lz, t1)
          /\ lz.lz_active_length > LzActiveEdgeLength(lz, t1)

(***************************************************************************)
(* lz76_exhaustive_distribution: the parallel path (SpecExh).              *)
(***************************************************************************)
\* the call is in its parallel loop
InParallelLoop == exh_call.fn = "distribution" /\ exh_call.pc = "parallel"

\* the call took the parallel path (it is in the loop or has left it)
TookParallelPath ==
    /\ DistEntered
    /\ dist.actual_num_threads > 1 /\ exh_call.L > dist.split_depth

\* the tasks some thread is running
RunningTasks ==
    {dist.running[t] : t \in Threads(dist.actual_num_threads)} \ {-1}

\* no sub-task is running and none is left to hand out
AllTasksFinished ==
    /\ dist.next_task = dist.num_tasks
    /\ RunningTasks = {}
    /\ \A i \in 0..(dist.num_tasks - 1) : dist.task_runs[i] = 1

\* a task is with at most one thread, is run at most once, and is never run
\* again once finished; the caller's histogram is untouched during the loop
TasksRunOnce ==
    TookParallelPath =>
        /\ \A t1, t2 \in Threads(dist.actual_num_threads) :
              (t1 # t2 /\ dist.running[t1] # -1) => dist.running[t1] # dist.running[t2]
        /\ \A i \in 0..(dist.num_tasks - 1) :
              /\ dist.task_runs[i] \in {0, 1}
              /\ dist.task_runs[i] = 1 => (i < dist.next_task /\ i \notin RunningTasks)
              /\ i \in RunningTasks => i < dist.next_task
        /\ InParallelLoop =>
              counts_by_complexity = ZeroCounts(exh_call.max_complexity_to_track)
        /\ exh_call.pc = "returned" => AllTasksFinished

\* the caller's histogram changes only in the reduction, after every task has
\* finished; a private histogram changes only in a step in which its owner
\* finishes a task
ReductionAfterTasks ==
    InParallelLoop =>
        /\ counts_by_complexity' # counts_by_complexity => AllTasksFinished
        /\ exh_call'.pc = "returned" => AllTasksFinished
        /\ \A t \in Threads(dist.actual_num_threads) :
              dist'.private_distribution_arrays[t] # dist.private_distribution_arrays[t]
                 => (dist.running[t] # -1 /\ dist'.running[t] = -1
                     /\ dist'.task_runs[dist.running[t]] = 1)

\* C32: in the parallel path of lz76_exhaustive_distribution nothing is
\* added to the caller's histogram while a sub-task is running (the reduction
\* follows the end of all 2^d sub-tasks), each private histogram is
\* incremented only by its owner, and each sub-task is executed exactly once
\* by exactly one worker
C32_ReductionAfterAllTasks == [](TasksRunOnce) /\ [][ReductionAfterTasks]_vars

\* a parallel call with four tasks has returned a non-zero histogram, two
\* threads having counted strings in their private histograms
C32_Witness ==
    /\ TookParallelPath /\ exh_call.pc = "returned" /\ ~exh_call.alloc_failed
    /\ dist.num_tasks >= 4 /\ AllTasksFinished
    /\ \E c \in DOMAIN counts_by_complexity : counts_by_complexity[c] > 0
    /\ \E t1, t2 \in Threads(dist.actual_num_threads) :
          /\ t1 # t2
          /\ \E c \in DOMAIN counts_by_complexity :
                dist.private_distribution_arrays[t1][c] > 0
          /\ \E c \in DOMAIN counts_by_complexity :
                dist.private_distribution_arrays[t2][c] > 0

(***************************************************************************)
(* lz_state_copy: copy-on-branch isolation in the exhaustive enumerator    *)
(***************************************************************************)
\* all the frames of all the workers
MemFrames ==
    UNION {{mem_workers[w][i] : i \in 1..Len(mem_workers[w])} : w \in DOMAIN mem_workers}

\* the LZ state of a path, computed from the empty state
StateOfPath(path) ==
    compute_state_for_prefix(path, 0, lz_state_init(mem_call.L), mem_call.L).state

\* the state a frame was called with still holds what it held at the call
FrameStateKept(f) == StateContents(mem_heap, f.state) = f.entry

\* C33: advancing a copy never changes the state it was copied from: in
\* every frame of the recursion the state passed in holds, before the '0'
\* branch, between the branches and after the '1' branch, what it held when
\* the frame was entered; while tasks run every pre-computed prefix state
\* holds the state of its prefix; and the state of a frame is the state of
\* its path prefix.
C33_CopyOnBranchIsolation ==
    /\ \A f \in MemFrames :
          /\ FrameStateKept(f)
          /\ f.entry = StateOfPath(f.path)
    /\ mem_call.pc = "tasks" =>
          \A i \in 1..Len(mem_prefix_states) :
             StateContents(mem_heap, mem_prefix_states[i])
                = StateOfPath(PrefixString(i - 1, mem_call.split_depth))

\* two tasks run at once, and one of them is between its branches below a
\* frame whose current word is not empty, the '0' branch having advanced a
\* copy of that state to the end of a phrase
C33_Witness ==
    /\ mem_call.pc = "tasks"
    /\ \E w \in DOMAIN mem_workers : \E v \in DOMAIN mem_workers :
          /\ w # v
          /\ mem_workers[v] # << >>
          /\ Len(mem_workers[w]) >= 1
          /\ Top(mem_workers[w]).branch = 1
          /\ Top(mem_workers[w]).entry.current_word # << >>
          /\ LET a == advance_lz_state_in_place(Top(mem_workers[w]).entry, 48)
             IN  a.ok /\ a.state.current_word = << >>

(***************************************************************************)
(* advance_lz_state_in_place: the lengths of an enumeration node           *)
(***************************************************************************)
\* the two lengths of a frame's state add up to the symbols consumed, which
\* are at most L, and the two buffers hold the path in order
NodeLengthsAddUp(f) ==
    /\ f.state.parsed_text_len + f.state.current_word_len = Len(f.path)
    /\ Len(f.path) = mem_call.split_depth + f.k
    /\ Len(f.path) <= mem_call.L
    /\ f.state.max_len = mem_call.L
    /\ LET c == StateContents(mem_heap, f.state)
       IN  c.parsed_text \o c.current_word = f.path

\* C37: at every node of the enumeration parsed_text_len + current_word_len
\* is the number of symbols consumed, at most L, and parsed_text followed by
\* current_word is the path prefix; neither overflow branch of
\* advance_lz_state_in_place is ever taken.
C37_LengthsSumToSymbolsConsumed ==
    /\ \A f \in MemFrames : NodeLengthsAddUp(f)
    /\ mem_call.pc = "tasks" =>
          \A i \in 1..Len(mem_prefix_states) :
             /\ mem_prefix_states[i].parsed_text_len
                   + mem_prefix_states[i].current_word_len = mem_call.split_depth
             /\ LET c == StateContents(mem_heap, mem_prefix_states[i])
                IN  c.parsed_text \o c.current_word
                       = PrefixString(i - 1, mem_call.split_depth)
    /\ ~mem_call.overflow

\* a node of full length L = 3 whose symbols are split between the two
\* buffers, reached by advances alone (no allocation failed)
C37_Witness ==
    /\ mem_call.L = MemMaxL
    /\ ~mem_call.alloc_failed
    /\ \E f \in MemFrames :
          /\ Len(f.path) = mem_call.L
          /\ f.state.parsed_text_len > 0
          /\ f.state.current_word_len > 0

(***************************************************************************)
(* symmetric_lz76_parallel_original, symmetric_lz78_parallel: the writes   *)
(* into a worker's reverse buffer                                          *)
(***************************************************************************)
ReverseBufferKernels == {"symmetric_lz76_parallel_original", "symmetric_lz78_parallel"}

\* the recorded maximum fits the buffer (a worker without a buffer has
\* recorded no length)
MaxLenFitsBuffer(w) ==
    IF w.reversed = << >> THEN w.max_len = 0 ELSE w.max_len <= Len(w.reversed) - 1

\* worker t is in the loop body of an item and, realloc having failed or
\* not, the reversal it goes on to is inside its buffer (a body that stores
\* -1.0 and continues writes nothing)
ReversalInsideBuffer(t, realloc_fails) ==
    LET length == Len(batch.items[workers[t].i + 1].x)
        g      == GrowReversed(batch.fn, workers[t], length, realloc_fails)
    IN  \/ g.skipped
        \/ g.w.reversed = << >> /\ length > 0
        \/ ~WritesThroughNull(g.w, length) /\ ~OverflowsReversed(g.w, length)

\* C34: in symmetric_lz76_parallel_original and symmetric_lz78_parallel the
\* recorded maximum length of every worker is at most the capacity of its
\* buffer minus one, and every reversal, the terminator of an empty item
\* included, writes inside the buffer and not through a null buffer, for
\* every batch, every schedule and every outcome of growing the buffer.
C34_ReverseBufferWritesInBounds ==
    (batch.fn \in ReverseBufferKernels /\ batch.pc = "parallel") =>
       \A t \in DOMAIN workers :
          /\ MaxLenFitsBuffer(workers[t])
          /\ workers[t].pc = "item" =>
                \A realloc_fails \in BOOLEAN : ReversalInsideBuffer(t, realloc_fails)

\* what holds: when realloc succeeds and the item is not empty the recorded
\* maximum fits and the reversal is inside the buffer; in
\* symmetric_lz78_parallel the recorded maximum fits under every outcome
ReverseBufferSafeOtherwise ==
    (batch.fn \in ReverseBufferKernels /\ batch.pc = "parallel") =>
       \A t \in DOMAIN workers :
          /\ (failed = {} \/ batch.fn = "symmetric_lz78_parallel")
                => MaxLenFitsBuffer(workers[t])
          /\ (workers[t].pc = "item" /\ MaxLenFitsBuffer(workers[t])
                /\ batch.items[workers[t].i + 1].x # << >>)
                => ReversalInsideBuffer(t, FALSE)

\* a worker's buffer never shrinks while the worker is in the loop
ReverseBufferGrowOnly ==
    [][\A t \in DOMAIN workers :
          (t \in DOMAIN workers' /\ workers'[t].pc # "done")
             => Len(workers'[t].reversed) >= Len(workers[t].reversed)]_vars

\* a worker of symmetric_lz76_parallel_original has recorded a length its
\* buffer cannot hold
MaxLenExceedsBuffer ==
    /\ batch.fn = "symmetric_lz76_parallel_original"
    /\ \E t \in DOMAIN workers :
          workers[t].reversed # << >> /\ workers[t].max_len > Len(workers[t].reversed) - 1

(***************************************************************************)
(* add_char_lz_c: the current word after the end of a phrase (SpecLZ).     *)
(***************************************************************************)
\* the current word of a parser state
CurrentWord(l) == SubSeq(l.current_word_buffer, 1, l.current_word_len)

\* in a call that ends a phrase the current word is left holding the symbol
\* of the call alone
WordResetToSymbolInStep ==
    (AddCharLzStep /\ ~tree'.crashed /\ StepReturned) =>
        /\ lz'.current_word_len = 1
        /\ CurrentWord(lz') = << StepSymbol >>

\* C35: when add_char_lz_c(ch) completes a phrase, the completed phrase is
\* the current word as it was before ch was added, and the current word is
\* reset to hold only ch: its length is 1 after the call.
C35_WordResetToSymbol == [][WordResetToSymbolInStep]_vars

\* what the code does: the symbol of the call is the last symbol of the
\* completed phrase, which is left in the buffer, and the current word is
\* empty after the call
WordEmptiedInStep ==
    (AddCharLzStep /\ ~tree'.crashed /\ StepReturned) =>
        /\ lz'.current_word_len = 0
        /\ SubSeq(lz'.current_word_buffer, 1, lz.current_word_len + 1)
              = Append(CurrentWord(lz), StepSymbol)

PhraseIncludesSymbol == [][WordEmptiedInStep]_vars

(***************************************************************************)
(* add_char_c: termination of the remainder loop (FairSpecLoop), and the   *)
(* recursion of is_match_in_base_tree_c.                                   *)
(***************************************************************************)
\* the thread is not inside a call: the last call has returned, or it has
\* ended the process with exit() after a failed allocation
OutsideCall == loop.pc \in {"idle", "exited"}

RemainderNotNegative ==
    /\ loop.pc = "loop" => loop.ls.t.remainder >= 0
    /\ loop.pc = "idle" => tree.remainder >= 0

\* C36: every call of add_char_c terminates: whenever the remainder loop
\* has been entered it is left again after finitely many iterations,
\* walk-down steps included, and remainder is never negative.
C36_AddCharTerminates == []<>OutsideCall /\ []RemainderNotNegative

\* a call is stopped inside the loop by the read through a NULL active_node
\* and never returns
CallNeverReturns == loop.pc = "crashed"

\* what holds: the loop never runs forever (a call returns, exits or is
\* stopped by that read), and remainder is never negative
LoopIsLeft == []<>(OutsideCall \/ CallNeverReturns) /\ []RemainderNotNegative

RECURSIVE IsMatchCalls(_, _, _)
\* the number of times is_match_in_base_tree_c is entered for one call from
\* add_char_lz_c
IsMatchCalls(lz_tree, base_tree, char_to_find) ==
    IF lz_tree.lz_active_node = NULL \/ lz_tree.lz_active_length = 0
       \/ ~HasChildEdge(base_tree.nodes, lz_tree.lz_active_node,
                        lz_tree.lz_active_edge_first_char)
    THEN 1
    ELSE LET current_edge == ChildEdge(base_tree.nodes, lz_tree.lz_active_node,
                                       lz_tree.lz_active_edge_first_char)
             edge_len == api_edge_length_c(current_edge, Len(base_tree.text) - 1)
         IN  IF lz_tree.lz_active_length < edge_len THEN 1
             ELSE 1 + IsMatchCalls(
                      [lz_tree EXCEPT !.lz_active_node = current_edge.dest,
                                      !.lz_active_length = 0,
                                      !.lz_active_edge_first_char = 0,
                                      !.lz_active_edge_text_start_idx = -1],
                      base_tree, char_to_find)

\* is_match_in_base_tree_c calls itself at most once per call of
\* add_char_lz_c (SpecLZ)
IsMatchRecursesOnce ==
    [][(AddCharLzStep /\ ~tree'.crashed) =>
          IsMatchCalls(LzBeforeExtension, tree', StepSymbol) <= 2]_vars

\* a call in which is_match_in_base_tree_c has called itself
IsMatchRecursed ==
    /\ LzRunning /\ fed # << >> /\ Len(completed) = Len(fed)
    /\ lz.lz_active_length = 1
    /\ lz.lz_active_node # tree.root

(***************************************************************************)
(* add_char_c: remainder and the leaves after a call (SpecTree).           *)
(***************************************************************************)
\* the suffix of length k of T also starts at an earlier position of T
SuffixOccursEarlier(T, k) ==
    \E i \in 0..(Len(T) - k - 1) : MemEq(T, i, SubSeq(T, Len(T) - k + 1, Len(T)))

\* the length of the longest suffix of T that also occurs starting at an
\* earlier position (0 if there is none)
LongestRepeatedSuffix(T) ==
    LET ks == {k \in 1..Len(T) : SuffixOccursEarlier(T, k)}
    IN  IF ks = {} THEN 0 ELSE CHOOSE k \in ks : \A j \in ks : j <= k

\* the edges of the tree that end at the end of the text
LeafEdges(t) ==
    {<<n, i>> \in (1..Len(t.nodes)) \X (1..(TreeMaxByte + 2)) :
        /\ i <= Len(t.nodes[n].children_list)
        /\ t.nodes[n].children_list[i].edge.end = INF_END}

\* C40: after every completed add_char_c call building text T, remainder is
\* the length of the longest suffix of T that also occurs at an earlier
\* position of T, and the tree has text_len - remainder leaf edges.
C40_RemainderIsLongestRepeatedSuffix ==
    (TreeBuilt /\ ~tree.crashed) =>
        /\ tree.remainder = LongestRepeatedSuffix(tree.text)
        /\ Cardinality(LeafEdges(tree)) = Len(tree.text) - tree.remainder

\* what holds: remainder is between 0 and text_len
RemainderWithinText ==
    (TreeBuilt /\ ~tree.crashed) =>
        /\ 0 <= tree.remainder
        /\ tree.remainder <= Len(tree.text)

(***************************************************************************)
(* The phrase count of a non-empty sequence in the four parsers            *)
(* (SpecNaive; the suffix-tree parser and the incremental state are        *)
(* applied to the input of the call as functions).                         *)
(***************************************************************************)
InRange(c, n) == 1 <= c /\ c <= n

\* the binary strings ('0' / '1') of length n
BinaryStrings(n) == [1..n -> {48, 49}]

\* the incremental LZState after the symbols of v, buffers of length |v|
IncrementalState(v) ==
    compute_state_for_prefix(v, 0, lz_state_init(Len(v)), Len(v)).state

\* the running naive LZ76 and LZ78 parses: once the first symbol is read it
\* has completed a phrase, and LZ78 holds at most as many phrases as symbols
\* read
FirstSymbolCompletesPhrase ==
    /\ (kernel = "lz76" /\ st76.pos >= 1) =>
          /\ st76.dictionary_size >= 1
          /\ st76.dictionary_size <= st76.pos
          /\ SubSeq(st76.parsed, 1, 1) = SubSeq(input_string, 1, 1)
    /\ (kernel = "lz78" /\ st78.pos >= 1) =>
          /\ Len(st78.dictionary) >= 1
          /\ Len(st78.dictionary) <= st78.pos

\* the suffix-tree parser and the incremental state on the input of the call
OtherParsersInRange ==
    (kernel \in {"lz76", "lz78"} /\ input_string # << >>) =>
        /\ \A g \in GarbageBytes :
              /\ InRange(FreshComplexity(g, input_string), Len(input_string))
              /\ FreshFed(g, input_string).completed[1]
        /\ \A v \in BinaryStrings(Len(input_string)) :
              /\ InRange(FinalDictSize(IncrementalState(v)), Len(v))
              /\ IncrementalState(SubSeq(v, 1, 1)).dictionary_size = 1

\* the call on a non-empty input returns a count between 1 and n
CountReturnedInRange ==
    (kernel \in {"lz76", "lz78"} /\ input_string # << >> /\ Completed) =>
        /\ ~result.aborted
        /\ kernel = "lz76" => InRange(Lz76FinalCount(st76), Len(input_string))
        /\ kernel = "lz78" =>
              /\ result.value = 1000000 * Lz78FinalCount(st78)
              /\ InRange(Lz78FinalCount(st78), Len(input_string))

\* C38: for every non-empty sequence of n symbols each parser (naive LZ76,
\* LZ78, the suffix-tree LZ parser, the incremental state of the exhaustive
\* enumerator) yields a phrase count c with 1 <= c <= n, the first symbol
\* completes a phrase, and lz78_complexity never holds more than n phrases.
C38_PhraseCountWithinLength ==
    /\ FirstSymbolCompletesPhrase
    /\ OtherParsersInRange
    /\ CountReturnedInRange

\* what holds: the same for every call that returns
PhraseCountWithinLengthIfReturned ==
    /\ FirstSymbolCompletesPhrase
    /\ OtherParsersInRange
    /\ result.aborted \/ CountReturnedInRange

\* lz78_complexity was ended by its cleanup loop on a non-empty input and has
\* yielded no count
Lz78YieldedNoCount ==
    /\ kernel = "lz78" /\ input_string # << >> /\ result.aborted
    /\ InRange(Lz78FinalCount(st78), Len(input_string))

(***************************************************************************)
(* conditional_lz76_complexity, conditional_lz78_complexity: the sign of   *)
(* the returned value (SpecNaive).                                         *)
(***************************************************************************)
\* the raw LZ78 phrase count of the whole parse
Lz78RawCount(seq) == Lz78FinalCount(Lz78Loop(Lz78Start, seq))

\* the phrase count does not fall when y is appended to x
CountsMonotone(x, y) ==
    /\ Lz76RawCount(x \o y) >= Lz76RawCount(x)
    /\ Lz78RawCount(x \o y) >= Lz78RawCount(x)

\* C39: for all X and Y the phrase count of X followed by Y is at least the
\* phrase count of X, for the naive LZ76 raw count and for LZ78; so with no
\* allocation failure conditional_lz76_complexity and
\* conditional_lz78_complexity never return a negative value, and a returned
\* -1.0 always means an error.
C39_ConditionalNeverNegative ==
    kernel \in {"cond_lz76", "cond_lz78"} =>
        /\ CountsMonotone(input_string, y_string)
        /\ \A k \in 0..Len(input_string) :
              CountsMonotone(SubSeq(input_string, 1, k),
                             SubSeq(input_string, k + 1, Len(input_string)))
        /\ (result.done /\ ~result.aborted) =>
              /\ ~heap.malloc_failed => result.value >= 0
              /\ result.value = -1000000 => heap.malloc_failed
              /\ result.value < 0 => result.value = -1000000

\* conditional_lz76_complexity has returned for an X that ends inside a
\* phrase and a non-empty Y that adds no phrase
C39_Witness ==
    /\ kernel = "cond_lz76" /\ result.done /\ ~heap.malloc_failed
    /\ Len(input_string) >= 2 /\ Len(y_string) >= 1
    /\ Lz76Loop(Lz76Start, input_string).current_word # << >>
    /\ Lz76RawCount(input_string \o y_string) = Lz76RawCount(input_string)
    /\ result.value >= 0

=============================================================================
